---- MODULE Spec2Model ----
(***************************************************************************)
(* Model of nonebot_plugin_doroending: the catalog manager                 *)
(* (DoroEndingManager, model.py) and the command layer with the daily      *)
(* assignment ledger (__init__.py).                                        *)
(*                                                                         *)
(* Python strings are modelled as sequences of one-character strings, so   *)
(* that str.isdigit, int(), str(), the f-string "{id:08d}", re.sub and     *)
(* pathlib's suffix handling are computed and not assumed.                 *)
(***************************************************************************)
EXTENDS Integers, Sequences, FiniteSets, TLC

(***************************************************************************)
(* Bounds of the model                                                     *)
(***************************************************************************)
\* add_ending is not taken once max_id has reached MaxId
MaxId == 2

\* the days the clock runs through
MaxDay == 2

(***************************************************************************)
(* Program constants                                                       *)
(***************************************************************************)
\* ImageConfig.max_size
max_size == 10 * 1024 * 1024

\* ImageConfig.max_filename_length
max_filename_length == 255

(***************************************************************************)
(* Strings                                                                 *)
(***************************************************************************)
DigitChars == <<"0", "1", "2", "3", "4", "5", "6", "7", "8", "9">>

\* a character that str.isdigit() takes for a digit and int() does not read,
\* such as the superscript two
SuperscriptTwo == "^"

\* c is one of the decimal digits
IsDecimalChar(c) == \E i \in 1..10 : DigitChars[i] = c

\* c.isdigit()
IsDigitChar(c) == IsDecimalChar(c) \/ c = SuperscriptTwo

DigitValue(c) == (CHOOSE i \in 1..10 : DigitChars[i] = c) - 1

\* str.isdigit(): non-empty and every character is a digit
IsDigit(s) == Len(s) > 0 /\ \A i \in 1..Len(s) : IsDigitChar(s[i])

\* int(s) returns a number for a string s with s.isdigit(): it raises
\* ValueError unless every character is a decimal digit
IntAccepts(s) == Len(s) > 0 /\ \A i \in 1..Len(s) : IsDecimalChar(s[i])

RECURSIVE StrToInt(_)
\* int(s) for a string of digits
StrToInt(s) ==
    IF Len(s) = 0 THEN 0
    ELSE 10 * StrToInt(SubSeq(s, 1, Len(s) - 1)) + DigitValue(s[Len(s)])

RECURSIVE IntToStr(_)
\* str(n) for n >= 0
IntToStr(n) ==
    IF n < 10 THEN <<DigitChars[n + 1]>>
    ELSE IntToStr(n \div 10) \o <<DigitChars[(n % 10) + 1]>>

RECURSIVE Zeros(_)
Zeros(k) == IF k <= 0 THEN <<>> ELSE <<"0">> \o Zeros(k - 1)

\* f"{n:08d}"
Format08d(n) == Zeros(8 - Len(IntToStr(n))) \o IntToStr(n)

\* index of the last "." of s, 0 if there is none (str.rfind, 1-based)
RFindDot(s) ==
    IF \E i \in 1..Len(s) : s[i] = "."
    THEN CHOOSE i \in 1..Len(s) : s[i] = "." /\ \A j \in (i + 1)..Len(s) : s[j] # "."
    ELSE 0

\* PurePath.suffix of a file name
PathSuffix(s) ==
    LET i == RFindDot(s)
    IN  IF 1 < i /\ i < Len(s) THEN SubSeq(s, i, Len(s)) ELSE <<>>

\* PurePath.stem of a file name
PathStem(s) ==
    LET i == RFindDot(s)
    IN  IF 1 < i /\ i < Len(s) THEN SubSeq(s, 1, i - 1) ELSE s

\* PurePath.with_suffix(ext).name
WithSuffix(s, ext) == PathStem(s) \o ext

IllegalChars == {"<", ">", ":", "\"", "/", "\\", "|", "?", "*"}

JPG == <<".", "j", "p", "g">>

\* the first k characters of s, all of s when it is shorter (s[:k], k >= 0)
FirstChars(s, k) == SubSeq(s, 1, IF k < Len(s) THEN k ELSE Len(s))

\* the last k characters of s (s[-k:])
LastChars(s, k) == SubSeq(s, Len(s) - k + 1, Len(s))

\* re.sub(r'[<>:"/\\|?*]', "_", filename)
ReplaceIllegal(filename) ==
    [i \in 1..Len(filename) |-> IF filename[i] \in IllegalChars THEN "_" ELSE filename[i]]

\* variant of MaxStemLength: the length of the suffix is not taken off
MaxStemLengthWholeName(suffix) == max_filename_length

\* max_stem_length = self.image_config.max_filename_length - len(suffix)
MaxStemLength(suffix) == max_filename_length - Len(suffix)

\* DoroEndingManager._sanitize_filename
SanitizeFilename(filename) ==
    LET replaced == ReplaceIllegal(filename)
        stem     == PathStem(replaced)
        suffix   == PathSuffix(replaced)
        max_stem_length == MaxStemLength(suffix)
    IN  IF Len(replaced) > max_filename_length
        THEN IF max_stem_length > 0
             THEN FirstChars(stem, max_stem_length) \o suffix
             ELSE LastChars(suffix, max_filename_length)
        ELSE replaced

(***************************************************************************)
(* Inputs                                                                  *)
(***************************************************************************)
\* names given to add_ending, and name targets given to remove_ending
Names == {<<"A">>, <<"a">>}

\* english names given to add_ending
EnglishNames == {<<"e">>, <<"/", ".", "g">>}

\* The image arguments of an add_ending call and what the network and the disk
\* do during it:
\*   has_url         image_url is given (not None, not "")
\*   byte_size       len(image_bytes); -1 stands for image_bytes=None
\*   net             the GET: the response arrives ("ok"), or aiohttp.ClientError
\*                   or asyncio.TimeoutError is raised
\*   content_length  the Content-Length header; -1 stands for no header
\*   body_size       len(await response.read())
\*   write           opening and writing the file: written ("ok"), or OSError
\*                   is raised and no file is left ("OSError")
ImageCase(has_url, byte_size, net, content_length, body_size, write) ==
    [has_url |-> has_url, byte_size |-> byte_size, net |-> net,
     content_length |-> content_length, body_size |-> body_size, write |-> write]

WriteOutcomes == {"ok", "OSError"}

\* the cases without an image, with image_bytes and with image_url; an
\* argument or outcome the code does not reach in a case is fixed
ImageCases ==
    {ImageCase(FALSE, b, "ok", -1, 1, "ok") : b \in {-1, 0}}
    \cup {ImageCase(u, max_size + 1, "ok", -1, 1, "ok") : u \in BOOLEAN}
    \cup {ImageCase(FALSE, b, "ok", -1, 1, w) : b \in {1, max_size}, w \in WriteOutcomes}
    \cup {ImageCase(TRUE, b, n, -1, 1, "ok") : b \in {-1, 0}, n \in {"ClientError", "TimeoutError"}}
    \cup {ImageCase(TRUE, -1, "ok", max_size + 1, 1, "ok")}
    \cup {ImageCase(TRUE, -1, "ok", c, max_size + 1, "ok") : c \in {-1, max_size}}
    \cup {ImageCase(TRUE, -1, "ok", c, max_size, w) : c \in {-1, 1}, w \in WriteOutcomes}

\* outcome of unlinking a file
UnlinkOutcomes == {"ok", "OSError"}

(***************************************************************************)
(* State                                                                   *)
(***************************************************************************)
VARIABLES
    datas,          \* self._data["datas"]: sequence of DoroEnding records
    max_id,         \* self._data["max_id"]
    total,          \* self._data["total"]
    dirty,          \* self._dirty
    pic_files,      \* names of the files in self.pic_dir
    data_file,      \* content of self.data_file (doroendings.json)
    bak_file,       \* content of the backup beside it (doroendings.json.bak)
    user_doro_map,  \* the global user_doro_map: key -> assignment
    current_date,   \* the global current_date, 0 for ""
    today,          \* the day datetime.now() is in
    date_file,      \* content of doro_date_record.json
    map_file,       \* content of user_doro_map.json
    result,         \* the last call: its operation, its arguments, what it returned or raised
    max_issued,     \* history: the largest id a successful add_ending call has allocated
    returned_today, \* history: user -> the entry id last returned to the user today, 0 if none
    lock,           \* self._lock: the task that holds it, 0 when it is free
    tasks,          \* task -> where it is in its call of the store, with its arguments and locals
    downloader      \* the GitRepoDownloader of the running download(), and where the run is

catalog_vars == <<datas, max_id, total, dirty>>

file_vars == <<data_file, bak_file>>

ledger_vars == <<user_doro_map, current_date, today, date_file, map_file>>

task_vars == <<lock, tasks, downloader>>

vars == <<datas, max_id, total, dirty, pic_files, data_file, bak_file,
          user_doro_map, current_date, today, date_file, map_file,
          result, max_issued, returned_today, lock, tasks, downloader>>

\* the users that send commands (event.user_id)
Users == {1, 2}

\* the tasks of the event loop that call the store at the same time
Callers == {1, 2}

\* a task that is not in a call of the store
Idle == [pc |-> "idle"]

\* dataclass DoroEnding
DoroEnding(id, name, english_name, pic) ==
    [id |-> id, name |-> name, english_name |-> english_name, pic |-> pic]

\* The last call: op is the function called, name its name argument (for
\* remove_ending and handle_rdoro_ending the target, when a str, for
\* handle_doro_ending str(event.user_id)), out what it returned, raised or
\* replied and id the id of the entry it added, removed or returned (0 if none)
Result(op, name, out, id) == [op |-> op, name |-> name, out |-> out, id |-> id]

\* A file that does not exist
Absent == [kind |-> "absent"]

\* A file whose content is no JSON document (a write that stopped part-way)
Partial(multibyte) == [kind |-> "partial", multibyte |-> multibyte]

\* the dictionary without keys
EmptyDict == [k \in {} |-> 0]

\* a GitRepoDownloader as __init__ leaves it, at the start of download():
\* current_source is "github"; pc is the step of download() the run is at, op
\* the operation handed to _try_with_fallback, attempts the calls of op made by
\* the current _try_with_fallback, switches the source switches of this run,
\* switched whether the last step was the switch
GitRepoDownloader(use_gitee_fallback) ==
    [current_source |-> "github", use_gitee_fallback |-> use_gitee_fallback,
     pc |-> "first", op |-> "get_root_contents", attempts |-> 0, switches |-> 0,
     switched |-> FALSE, success |-> FALSE, has_doro_pic |-> FALSE, has_json |-> FALSE]

\* no download() is running
NoDownload == [GitRepoDownloader(TRUE) EXCEPT !.pc = "idle", !.op = "none"]

\* The state when the module has been imported on a fresh installation:
\* DoroEndingManager.__init__, the globals current_date = "" and
\* user_doro_map = {}, and no file written yet
Init ==
    /\ datas = <<>>
    /\ max_id = 0
    /\ total = 0
    /\ dirty = FALSE
    /\ pic_files = {}
    /\ data_file = Absent
    /\ bak_file = Absent
    /\ user_doro_map = EmptyDict
    /\ current_date = 0
    /\ today = 1
    /\ date_file = Absent
    /\ map_file = Absent
    /\ result = Result("init", <<>>, "ok", 0)
    /\ max_issued = 0
    /\ returned_today = [u \in Users |-> 0]
    /\ lock = 0
    /\ tasks = [c \in Callers |-> Idle]
    /\ downloader = NoDownload

(***************************************************************************)
(* Lookups                                                                 *)
(***************************************************************************)
\* position of the first entry with the id, 0 if none
IndexById(ending_id) ==
    IF \E i \in 1..Len(datas) : datas[i].id = ending_id
    THEN CHOOSE i \in 1..Len(datas) :
            /\ datas[i].id = ending_id
            /\ \A j \in 1..(i - 1) : datas[j].id # ending_id
    ELSE 0

\* position of the first entry with the name, 0 if none
IndexByName(name) ==
    IF \E i \in 1..Len(datas) : datas[i].name = name
    THEN CHOOSE i \in 1..Len(datas) :
            /\ datas[i].name = name
            /\ \A j \in 1..(i - 1) : datas[j].name # name
    ELSE 0

\* variant of NameExists: the lookup compares the english names
NameExistsAsEnglishName(name) == \E i \in 1..Len(datas) : datas[i].english_name = name

\* DoroEndingManager.get_ending_by_name, as a truth value
NameExists(name) == IndexByName(name) # 0

\* list.remove(x): the sequence without its first element equal to x
ListRemove(s, x) ==
    LET i == CHOOSE k \in 1..Len(s) : s[k] = x /\ \A j \in 1..(k - 1) : s[j] # x
    IN  SubSeq(s, 1, i - 1) \o SubSeq(s, i + 1, Len(s))

\* max(item.id for item in s), for a non-empty s
MaxIdOf(s) == CHOOSE m \in {s[i].id : i \in 1..Len(s)} : \A i \in 1..Len(s) : s[i].id <= m

(***************************************************************************)
(* add_ending                                                              *)
(***************************************************************************)
\* The effect of opening a file "wb" and writing it: the files afterwards
WriteFile(files, name, write) ==
    IF write = "OSError" THEN files ELSE files \cup {name}

\* variant of BodyTooLarge: the body is not measured
BodyNotMeasured(body_size) == FALSE

\* len(image_bytes) > self.image_config.max_size
BodyTooLarge(body_size) == body_size > max_size

\* The file names given to _sanitize_filename: a head, a run of "a" and a tail
\* of up to MaxTail characters, with a legal character, the dot and an illegal
\* character; the runs make names just below, at and above max_filename_length
MaxTail == 2

SanitizeChars == {"a", ".", "/"}

Tails == UNION {[1..k -> SanitizeChars] : k \in 0..MaxTail}

Heads == {<<>>, <<".">>, <<"a", ".">>, <<"/">>}

Fill(k) == [i \in 1..k |-> "a"]

FillLengths == {0} \cup ((max_filename_length - 3)..(max_filename_length + 1))

FileNames == {h \o Fill(k) \o t : h \in Heads, k \in FillLengths, t \in Tails}

\* a call of _sanitize_filename
SanitizeFilenameCall ==
    /\ \E filename \in FileNames :
          result' = Result("_sanitize_filename", filename, SanitizeFilename(filename), 0)
    /\ UNCHANGED <<task_vars, catalog_vars, pic_files, file_vars, ledger_vars, max_issued,
                   returned_today>>

NextSanitize == SanitizeFilenameCall

SpecSanitize == Init /\ [][NextSanitize]_vars

\* DoroEndingManager._download_and_save_image: what it returns ("True",
\* "False") or raises ("OSError"), and the files afterwards
\* (read tells whether response.read() was reached)
DownloadAndSaveImage(save_name, net, content_length, body_size, write) ==
    IF net # "ok"
    THEN [out |-> "False", files |-> pic_files, read |-> FALSE]
    ELSE IF content_length # -1 /\ content_length > max_size
    THEN [out |-> "False", files |-> pic_files, read |-> FALSE]
    ELSE IF BodyTooLarge(body_size)
    THEN [out |-> "False", files |-> pic_files, read |-> TRUE]
    ELSE [out   |-> IF write = "ok" THEN "True" ELSE "OSError",
          files |-> WriteFile(pic_files, WithSuffix(save_name, JPG), write),
          read  |-> TRUE]

\* the paths add_ending passes as save_path: <new_id:08d>_<safe english name>
SavePaths ==
    {Format08d(id) \o <<"_">> \o SanitizeFilename(e) : id \in 1..MaxId, e \in EnglishNames}

\* what a request meets: the connection, the declared Content-Length (-1 when
\* the header is absent), the length of the body and the write of the file
DownloadCases ==
    {ImageCase(TRUE, -1, n, c, b, w) :
        n \in {"ok", "ClientError", "TimeoutError"},
        c \in {-1, 1, max_size, max_size + 1},
        b \in {1, max_size, max_size + 1},
        w \in WriteOutcomes}

\* The last call when it was _download_and_save_image: name is the save_path,
\* out what was returned or raised, then what the request met and whether the
\* body was read
DownloadResult(save_name, c) ==
    LET dl == DownloadAndSaveImage(save_name, c.net, c.content_length, c.body_size, c.write)
    IN  [op |-> "_download_and_save_image", name |-> save_name, out |-> dl.out, id |-> 0,
         net |-> c.net, content_length |-> c.content_length, body_size |-> c.body_size,
         read |-> dl.read]

\* a call of _download_and_save_image
DownloadAndSaveImageCall ==
    /\ \E save_name \in SavePaths, c \in DownloadCases :
          /\ pic_files' = DownloadAndSaveImage(save_name, c.net, c.content_length,
                                               c.body_size, c.write).files
          /\ result' = DownloadResult(save_name, c)
    /\ UNCHANGED <<task_vars, catalog_vars, file_vars, ledger_vars, max_issued,
                   returned_today>>

NextDownload == DownloadAndSaveImageCall

SpecDownload == Init /\ [][NextDownload]_vars

\* variant of NewId: the id is taken from the number of entries
NewIdFromTotal == total + 1

\* new_id = self._data["max_id"] + 1
NewId == max_id + 1

\* The image step of add_ending (the block under "if image_url or
\* image_bytes"): out is "ok" or the exception that leaves add_ending, pic the
\* pic_filename, files the files afterwards
SaveImage(new_id, english_name, has_url, byte_size, net, content_length, body_size, write) ==
    LET safe_english_name == SanitizeFilename(english_name)
        pic_filename      == Format08d(new_id) \o <<"_">> \o safe_english_name
        dl == DownloadAndSaveImage(pic_filename, net, content_length, body_size, write)
    IN  IF ~(has_url \/ byte_size > 0)
        THEN [out |-> "ok", pic |-> <<>>, files |-> pic_files]
        ELSE IF byte_size > 0
        THEN IF byte_size > max_size
             THEN \* FILE_TOO_LARGE is a ValueError, caught and raised again
                  [out |-> "SaveFailed", pic |-> <<>>, files |-> pic_files]
             ELSE IF write = "ok"
             THEN [out |-> "ok", pic |-> pic_filename \o JPG,
                   files |-> WriteFile(pic_files, pic_filename, write)]
             ELSE [out |-> "SaveFailed", pic |-> <<>>,
                   files |-> WriteFile(pic_files, pic_filename, write)]
        ELSE IF dl.out = "True"
        THEN [out |-> "ok", pic |-> WithSuffix(pic_filename, <<>>) \o JPG, files |-> dl.files]
        ELSE IF dl.out = "OSError"
        THEN [out |-> "SaveFailed", pic |-> <<>>, files |-> dl.files]
        ELSE \* RuntimeError is not among (OSError, ClientError, ValueError)
             [out |-> "RuntimeError", pic |-> <<>>, files |-> dl.files]

\* What a call of the store leaves behind: what it returned or raised, the id
\* of the entry it is about (0 if none), and the store and the picture
\* directory afterwards
Outcome(out, id, d, m, t, dty, files) ==
    [out |-> out, id |-> id, datas |-> d, max_id |-> m, total |-> t,
     dirty |-> dty, pic_files |-> files]

\* add_ending from the image step on: name_exists and new_id are what the
\* lookup of the name and max_id + 1 gave at the start of the body, clen and
\* blen the Content-Length and the size of the body of the download
AddAfter(name_exists, new_id, name, english_name, has_url, byte_size, net, clen, blen, write) ==
    LET img == SaveImage(new_id, english_name, has_url, byte_size, net, clen, blen, write)
    IN  IF name_exists
        THEN Outcome("DuplicateName", 0, datas, max_id, total, dirty, pic_files)
        ELSE IF img.out # "ok"
        THEN Outcome(img.out, 0, datas, max_id, total, dirty, img.files)
        ELSE Outcome("ok", new_id,
                     Append(datas, DoroEnding(new_id, name, english_name, img.pic)),
                     new_id, total + 1, TRUE, img.files)

\* DoroEndingManager.add_ending, from the current state
AddOutcome(name, english_name, has_url, byte_size, net, content_length, body_size, write) ==
    AddAfter(NameExists(name), NewId, name, english_name, has_url, byte_size, net,
             content_length, body_size, write)

\* The store and the picture directory become what the call left behind; ids
\* are allocated up to MaxId
Becomes(o) ==
    /\ o.id <= MaxId
    /\ datas' = o.datas
    /\ max_id' = o.max_id
    /\ total' = o.total
    /\ dirty' = o.dirty
    /\ pic_files' = o.pic_files

\* a call of add_ending
AddEnding(name, english_name, has_url, byte_size, net, content_length, body_size, write) ==
    LET o == AddOutcome(name, english_name, has_url, byte_size,
                        net, content_length, body_size, write)
    IN  /\ Becomes(o)
        /\ max_issued' = IF o.id > max_issued THEN o.id ELSE max_issued
        /\ result' = Result("add_ending", name, o.out, o.id)

\* add_ending with every argument and every outcome of the network and the disk
AddEndingCall ==
    /\ \E name \in Names, english_name \in EnglishNames, c \in ImageCases :
          AddEnding(name, english_name, c.has_url, c.byte_size, c.net,
                    c.content_length, c.body_size, c.write)
    /\ UNCHANGED <<task_vars, file_vars, ledger_vars, returned_today>>

(***************************************************************************)
(* remove_ending                                                           *)
(***************************************************************************)
\* A Python value given as a target or used as a dictionary key: an int or a str
PyInt(n) == [ty |-> "int", n |-> n, s |-> <<>>]

PyStr(s) == [ty |-> "str", n |-> 0, s |-> s]

\* a value that is neither an int nor a str
PyNone == [ty |-> "none", n |-> 0, s |-> <<>>]

\* the targets given to remove_ending
Targets ==
    {PyInt(n) : n \in 1..MaxId} \cup {PyStr(IntToStr(n)) : n \in 1..MaxId}
        \cup {PyStr(s) : s \in Names} \cup {PyNone}

\* The lookup of remove_ending: the position of the entry the target resolves
\* to, 0 if none
ResolveTarget(target) ==
    IF target.ty = "int" THEN IndexById(target.n)
    ELSE IF target.ty = "str"
    THEN IF IsDigit(target.s)
         THEN IF IntAccepts(target.s) THEN IndexById(StrToInt(target.s)) ELSE 0
         ELSE IndexByName(target.s)
    ELSE 0

\* int(target) raises ValueError in the lookup of remove_ending
IntRaises(target) == target.ty = "str" /\ IsDigit(target.s) /\ ~IntAccepts(target.s)

\* variant of TotalAfterRemove: the counter is left as it was
TotalAfterRemoveKept == total

\* self._data["total"] after the entry was removed
TotalAfterRemove == total - 1

\* variant of MaxIdAfterRemove: max_id is not recomputed
MaxIdAfterRemoveNoRecompute(ending, rest) == IF rest = <<>> THEN 0 ELSE max_id

\* self._data["max_id"] after ending was removed and rest is what remains
MaxIdAfterRemove(ending, rest) ==
    IF ending.id = max_id /\ rest # <<>> THEN MaxIdOf(rest)
    ELSE IF rest = <<>> THEN 0
    ELSE max_id

\* variant of EntriesAfterFailedUnlink: the entry is taken out of the list
\* before its file is deleted
EntriesRemovedBeforeUnlink(ending, rest) == rest

\* self._data["datas"] when unlink has raised OSError: .remove(ending) comes
\* after the unlink and was not reached
EntriesAfterFailedUnlink(ending, rest) == datas

\* DoroEndingManager.remove_ending, from the current state
RemoveOutcome(target, unlink) ==
    LET idx    == ResolveTarget(target)
        ending == datas[idx]
        rest   == ListRemove(datas, ending)
        exists == ending.pic # <<>> /\ ending.pic \in pic_files
    IN  IF IntRaises(target)
        THEN Outcome("ValueError", 0, datas, max_id, total, dirty, pic_files)
        ELSE IF idx = 0
        THEN Outcome("False", 0, datas, max_id, total, dirty, pic_files)
        ELSE IF exists /\ unlink = "OSError"
        THEN Outcome("False", ending.id, EntriesAfterFailedUnlink(ending, rest), max_id,
                     total, dirty, pic_files)
        ELSE Outcome("True", ending.id, rest, MaxIdAfterRemove(ending, rest),
                     TotalAfterRemove, TRUE,
                     IF exists THEN pic_files \ {ending.pic} ELSE pic_files)

\* a call of remove_ending
RemoveEnding(target, unlink) ==
    LET o == RemoveOutcome(target, unlink)
    IN  /\ Becomes(o)
        /\ result' = Result("remove_ending", target.s, o.out, o.id)
        /\ UNCHANGED max_issued

\* remove_ending with every target and every outcome of the unlink
RemoveEndingCall ==
    /\ \E target \in Targets, unlink \in UnlinkOutcomes : RemoveEnding(target, unlink)
    /\ UNCHANGED <<task_vars, file_vars, ledger_vars, returned_today>>

\* names that read as numbers, as text and as a digit int() does not read
ResolveNames == {<<"1">>, <<"2">>, <<"a">>, <<SuperscriptTwo>>}

\* add_ending with such a name and no image
AddEndingResolveNamed ==
    /\ \E name \in ResolveNames : AddEnding(name, <<"e">>, FALSE, -1, "ok", -1, 1, "ok")
    /\ UNCHANGED <<task_vars, file_vars, ledger_vars, returned_today>>

\* remove_ending with such a name, or a number with a leading zero, as the target
RemoveEndingByString ==
    /\ \E s \in ResolveNames \cup {<<"0", "2">>} : RemoveEnding(PyStr(s), "ok")
    /\ UNCHANGED <<task_vars, file_vars, ledger_vars, returned_today>>

NextResolve == AddEndingResolveNamed \/ RemoveEndingByString

SpecResolve == Init /\ [][NextResolve]_vars

(***************************************************************************)
(* The catalog under add_ending and remove_ending                          *)
(***************************************************************************)
NextCatalog == AddEndingCall \/ RemoveEndingCall

SpecCatalog == Init /\ [][NextCatalog]_vars

(***************************************************************************)
(* update_ending                                                           *)
(***************************************************************************)
\* The keyword arguments of an update_ending call: for each key whether it is
\* given and its value. other stands for a key that is no attribute of
\* DoroEnding.
Kwargs(has_name, name, has_english_name, english_name, has_id, id, has_pic, pic, has_other) ==
    [has_name |-> has_name, name |-> name,
     has_english_name |-> has_english_name, english_name |-> english_name,
     has_id |-> has_id, id |-> id, has_pic |-> has_pic, pic |-> pic,
     has_other |-> has_other]

\* the pic values given to update_ending
PicValues == {<<>>, <<"p">>}

\* the sets of keyword arguments over the given values; the value of an absent
\* key is fixed
KwargsOver(names, english_names, ids, pics) ==
    {Kwargs(hn, IF hn THEN n ELSE <<>>, he, IF he THEN e ELSE <<>>,
            hi, IF hi THEN i ELSE 0, hp, IF hp THEN p ELSE <<>>, ho) :
        hn \in BOOLEAN, n \in names, he \in BOOLEAN, e \in english_names,
        hi \in BOOLEAN, i \in ids, hp \in BOOLEAN, p \in pics,
        ho \in BOOLEAN}

\* the keyword arguments given to update_ending: the keys of DoroEndingUpdate,
\* the other attributes of DoroEnding, and a key that is no attribute
UpdateKwargs == KwargsOver(Names, EnglishNames, 1..MaxId, PicValues)

\* The name-conflict check of update_ending for one field: another entry
\* (e.id != target) holds the new value
NameConflict(target, ending, kw) ==
    /\ kw.has_name
    /\ kw.name # ending.name
    /\ \E i \in 1..Len(datas) : datas[i].id # target /\ datas[i].name = kw.name

EnglishNameConflict(target, ending, kw) ==
    /\ kw.has_english_name
    /\ kw.english_name # ending.english_name
    /\ \E i \in 1..Len(datas) : datas[i].id # target /\ datas[i].english_name = kw.english_name

\* The "apply" loop of update_ending: every given key that is an attribute of
\* the entry (hasattr) is set
ApplyKwargs(ending, kw) ==
    [id           |-> IF kw.has_id THEN kw.id ELSE ending.id,
     name         |-> IF kw.has_name THEN kw.name ELSE ending.name,
     english_name |-> IF kw.has_english_name THEN kw.english_name ELSE ending.english_name,
     pic          |-> IF kw.has_pic THEN kw.pic ELSE ending.pic]

\* variant of Updated: every call that reaches the apply loop counts as a change
UpdatedAlways(ending, changed) == TRUE

\* the flag updated of update_ending: a key was set to a value that differs
\* from the old one
Updated(ending, changed) == changed # ending

\* DoroEndingManager.update_ending
UpdateEnding(target, kw) ==
    LET idx     == IndexById(target)
        ending  == datas[idx]
        changed == ApplyKwargs(ending, kw)
    IN  IF idx = 0
        THEN /\ result' = Result("update_ending", <<>>, "NotFound", 0)
             /\ UNCHANGED <<datas, max_id, total, dirty, pic_files, max_issued>>
        ELSE IF NameConflict(target, ending, kw)
        THEN /\ result' = Result("update_ending", <<>>, "DuplicateName", target)
             /\ UNCHANGED <<datas, max_id, total, dirty, pic_files, max_issued>>
        ELSE IF EnglishNameConflict(target, ending, kw)
        THEN /\ result' = Result("update_ending", <<>>, "DuplicateEnglishName", target)
             /\ UNCHANGED <<datas, max_id, total, dirty, pic_files, max_issued>>
        ELSE /\ datas' = [datas EXCEPT ![idx] = changed]
             /\ dirty' = IF Updated(ending, changed) THEN TRUE ELSE dirty
             /\ result' = Result("update_ending", <<>>, "ok", changed.id)
             /\ UNCHANGED <<max_id, total, pic_files, max_issued>>

\* update_ending with every target and every set of keyword arguments
UpdateEndingCall ==
    /\ \E target \in 1..MaxId, kw \in UpdateKwargs : UpdateEnding(target, kw)
    /\ UNCHANGED <<task_vars, file_vars, ledger_vars, returned_today>>

\* add_ending without an image, every entry given the same english name
AddEndingNoImage ==
    /\ \E name \in Names :
          AddEnding(name, <<"e">>, FALSE, -1, "ok", -1, 1, "ok")
    /\ UNCHANGED <<task_vars, file_vars, ledger_vars, returned_today>>

(***************************************************************************)
(* The catalog under add_ending, update_ending and remove_ending           *)
(***************************************************************************)
NextUpdate == AddEndingNoImage \/ UpdateEndingCall \/ RemoveEndingCall

SpecUpdate == Init /\ [][NextUpdate]_vars

(***************************************************************************)
(* save_to_file and load_from_file                                         *)
(***************************************************************************)
\* json.dumps of a str: the text between the quotes, with the quote and the
\* backslash escaped
RECURSIVE JsonEscape(_)
JsonEscape(s) ==
    IF s = <<>> THEN <<>>
    ELSE IF Head(s) \in {"\"", "\\"}
    THEN <<"\\", Head(s)>> \o JsonEscape(Tail(s))
    ELSE <<Head(s)>> \o JsonEscape(Tail(s))

\* json.loads of that text: the character after a backslash is taken as it is
RECURSIVE JsonUnescape(_)
JsonUnescape(t) ==
    IF t = <<>> THEN <<>>
    ELSE IF Head(t) = "\\" /\ Len(t) >= 2
    THEN <<t[2]>> \o JsonUnescape(SubSeq(t, 3, Len(t)))
    ELSE <<Head(t)>> \o JsonUnescape(Tail(t))

\* variant of JsonLoadsStr: the text between the quotes is taken as it is
JsonLoadsStrRaw(t) == SubSeq(t, 2, Len(t) - 1)

\* json.dumps of a str, and json.loads of the result
JsonDumpsStr(s) == <<"\"">> \o JsonEscape(s) \o <<"\"">>

JsonLoadsStr(t) == JsonUnescape(SubSeq(t, 2, Len(t) - 1))

\* asdict(item), as json.dumps writes it
AsDict(item) ==
    [id |-> IntToStr(item.id), name |-> JsonDumpsStr(item.name),
     english_name |-> JsonDumpsStr(item.english_name), pic |-> JsonDumpsStr(item.pic)]

\* DoroEnding(**item), from what json.loads reads
FromDict(item) ==
    DoroEnding(StrToInt(item.id), JsonLoadsStr(item.name),
               JsonLoadsStr(item.english_name), JsonLoadsStr(item.pic))

\* The JSON document save_to_file writes: save_data
CatalogDoc(d, m, t) ==
    [kind |-> "doc", datas |-> [i \in 1..Len(d) |-> AsDict(d[i])],
     max_id |-> IntToStr(m), total |-> IntToStr(t)]

\* outcomes of reading a file
\* A character outside ASCII, as the characters of a Chinese name are:
\* json.dumps(..., ensure_ascii=False) writes it as it is and UTF-8 encodes
\* it in several bytes
Han == "H"

\* the text of the document of the entries d has a multi-byte character
HasMultiByte(d) ==
    \E i \in 1..Len(d) : \E s \in {d[i].name, d[i].english_name, d[i].pic} :
        \E k \in 1..Len(s) : s[k] = Han

ReadOutcomes == {"ok", "OSError"}

\* outcomes of the rename of the data file to its backup, and of the write of
\* the new document: it succeeds, the file cannot be opened, or the write
\* stops part-way
RenameOutcomes == {"ok", "OSError"}

SaveWriteOutcomes == {"ok", "OSError", "partial"}

\* variant of BackupAfterRename: the data file is not kept
BackupNotKept(file, bak) == bak

\* the backup after the rename of the data file to it
BackupAfterRename(file, bak) == file

\* variant of SkipSave: the dirty flag is not looked at
SkipSaveNever(dty) == FALSE

\* "if not self._dirty": save_to_file returns at once
SkipSave(dty) == ~dty

\* variant of DirtyAfterFailedSave: the flag is cleared before the write
DirtyClearedBeforeWrite(dty) == FALSE

\* the dirty flag when save_to_file has caught an OSError
DirtyAfterFailedSave(dty) == dty

\* What save_to_file leaves behind when the store is (d, m, t, dty) and the
\* data file and its backup are file and bak: what it returned, the dirty flag
\* and the two files
SaveFiles(file, bak, d, m, t, dty, rename, write) ==
    LET exists == file.kind # "absent"
        moved  == IF exists THEN BackupAfterRename(file, bak) ELSE bak
    IN  IF SkipSave(dty)
        THEN [out |-> "True", dirty |-> dty, data_file |-> file, bak_file |-> bak]
        ELSE IF exists /\ rename = "OSError"
        THEN [out |-> "False", dirty |-> DirtyAfterFailedSave(dty),
              data_file |-> file, bak_file |-> bak]
        ELSE IF write = "OSError"
        THEN [out |-> "False", dirty |-> DirtyAfterFailedSave(dty),
              data_file |-> Absent, bak_file |-> moved]
        ELSE IF write = "partial"
        THEN [out |-> "False", dirty |-> DirtyAfterFailedSave(dty),
              data_file |-> Partial(HasMultiByte(d)), bak_file |-> moved]
        ELSE [out |-> "True", dirty |-> FALSE, data_file |-> CatalogDoc(d, m, t),
              bak_file |-> moved]

\* What save_to_file leaves behind when the store is (d, m, t, dty): what it
\* returned, the dirty flag and the two files. rename is the outcome of the
\* rename of the data file to its backup ("ok", "OSError"), write that of the
\* write of the new document: "ok", "OSError" when the file cannot be opened,
\* "partial" when the write stops part-way.
SaveOutcome(d, m, t, dty, rename, write) ==
    SaveFiles(data_file, bak_file, d, m, t, dty, rename, write)

\* What the read of the data file does: the text arrives ("ok"), OSError is
\* raised, or, for a partial file of a text with multi-byte characters that
\* was cut inside one of them, the decoding of f.read() raises
\* UnicodeDecodeError
LoadReadOutcomes == ReadOutcomes \cup {"UnicodeDecodeError"}

\* What load_from_file leaves behind when the store is o and the data file is
\* file: out is what it returned, or the exception that left it. A partial
\* file that can be decoded makes json.loads raise JSONDecodeError.
LoadFrom(file, o, read) ==
    IF file.kind = "absent"
    THEN Outcome("False", 0, o.datas, o.max_id, o.total, TRUE, o.pic_files)
    ELSE IF read = "UnicodeDecodeError" /\ file.kind = "partial" /\ file.multibyte
    THEN \* a ValueError that is neither OSError nor JSONDecodeError
         Outcome("UnicodeDecodeError", 0, o.datas, o.max_id, o.total, o.dirty, o.pic_files)
    ELSE IF read = "OSError" \/ file.kind = "partial"
    THEN Outcome("False", 0, o.datas, o.max_id, o.total, o.dirty, o.pic_files)
    ELSE Outcome("True", 0, [i \in 1..Len(file.datas) |-> FromDict(file.datas[i])],
                 StrToInt(file.max_id), StrToInt(file.total), FALSE, o.pic_files)

\* What load_from_file leaves behind when the store is o: out is what it
\* returned
LoadOutcome(o, read) == LoadFrom(data_file, o, read)

(***************************************************************************)
(* The files of the daily assignment ledger                                *)
(***************************************************************************)
\* a file holding a JSON object
JsonFile(dict) == [kind |-> "doc", dict |-> dict]

\* outcomes of write_dict_to_json: the object is written, or the file cannot be
\* opened; the exception is logged and the caller goes on
DictWriteOutcomes == {"ok", "OSError"}

\* json.dump writes an int key as the str of it
JsonKey(k) == IF k.ty = "int" THEN PyStr(IntToStr(k.n)) ELSE k

\* The object json.load reads back from what json.dump wrote for the dict
\* (were two keys written as the same str, one of their values is read back)
JsonObject(dict) ==
    [jk \in {JsonKey(k) : k \in DOMAIN dict} |->
        dict[CHOOSE k \in DOMAIN dict : JsonKey(k) = jk]]

\* variant of WriteDictToJson: nothing is written
WriteDictToJsonSkipped(file, data_dict, write) == file

\* the file after write_dict_to_json(data_dict, filename)
WriteDictToJson(file, data_dict, write) ==
    IF write = "ok" THEN JsonFile(JsonObject(data_dict)) ELSE file

\* read_dict_from_json(filename): {} when the file is missing, is no JSON or
\* cannot be read
ReadDictFromJson(file, read) ==
    IF file.kind = "doc" /\ read = "ok" THEN file.dict ELSE EmptyDict

\* the key under which the date file holds the date
DateKey == PyStr(<<"d", "a", "t", "e">>)

\* {"date": current_date}
DateDict(date) == [k \in {DateKey} |-> date]

\* dict.get("date", ""), "" being 0
GetDate(dict) == IF DateKey \in DOMAIN dict THEN dict[DateKey] ELSE 0

(***************************************************************************)
(* The commands: startup, handle_doro_ending, handle_add_doro_ending,      *)
(* handle_rdoro_ending                                                     *)
(***************************************************************************)
\* An assignment of the ledger: the entry id the dictionary holds, and as
\* history the day it was recorded on
Assignment(id, on) == [id |-> id, on |-> on]

\* variant of RecordedId: the position picked is recorded
RecordedPosition(pick) == pick

\* doro_info.id for doro_info = data[doro_ending - 1]: the id recorded for the
\* user
RecordedId(pick) == datas[pick].id

\* str(event.user_id), the key handle_doro_ending looks up and stores under
MapKey(user_id) == PyStr(IntToStr(user_id))

\* event.user_id, the key handle_doro_ending deletes
DelKey(user_id) == PyInt(user_id)

\* the dictionary with the key set to the value
DictSet(dict, k, v) == [x \in DOMAIN dict \cup {k} |-> IF x = k THEN v ELSE dict[x]]

\* the dictionary without the key
DictDel(dict, k) == [x \in DOMAIN dict \ {k} |-> dict[x]]

\* A restart of the process: the module is imported again (a new manager, the
\* globals as in Init) and startup() runs. load_from_file runs twice; the
\* download between the two reaches no server and writes nothing.
Startup(read1, read2, date_read, map_read) ==
    LET fresh  == Outcome("init", 0, <<>>, 0, 0, FALSE, pic_files)
        first  == LoadOutcome(fresh, read1)
        second == LoadOutcome(first, read2)
    IN  /\ Becomes(second)
        /\ current_date' = GetDate(ReadDictFromJson(date_file, date_read))
        /\ user_doro_map' = ReadDictFromJson(map_file, map_read)
        /\ result' = Result("startup", <<>>, second.out, 0)
        /\ UNCHANGED <<task_vars, file_vars, today, date_file, map_file, max_issued,
                       returned_today>>

\* a restart with the data file readable and every outcome of reading the
\* files of the ledger
Restart ==
    \E date_read \in ReadOutcomes, map_read \in ReadOutcomes :
        Startup("ok", "ok", date_read, map_read)

\* variant of HasRecord: the ledger is not looked at
HasRecordNever(map, key) == FALSE

\* str(event.user_id) in user_doro_map
HasRecord(map, key) == key \in DOMAIN map

\* handle_doro_ending for the user up to its first await, with the position
\* random.randint gives and the outcomes of the three writes
DoroEndingRequest(user_id, pick, date_write, clear_write, map_write) ==
    LET key      == MapKey(user_id)
        expired  == current_date # today
        map1     == IF expired THEN EmptyDict ELSE user_doro_map
        date1    == IF expired
                    THEN WriteDictToJson(date_file, DateDict(today), date_write)
                    ELSE date_file
        file1    == IF expired
                    THEN WriteDictToJson(map_file, EmptyDict, clear_write)
                    ELSE map_file
        doro_id  == map1[key].id
        idx      == IndexById(doro_id)
        map2     == DictSet(map1, key, Assignment(RecordedId(pick), today))
        Call(out, id) == Result("handle_doro_ending", key.s, out, id)
    IN  /\ current_date' = today
        /\ date_file' = date1
        /\ IF HasRecord(map1, key)
           THEN \* the user has an assignment
                IF idx # 0
                THEN /\ result' = Call("stored", datas[idx].id)
                     /\ user_doro_map' = map1
                     /\ map_file' = file1
                ELSE IF DelKey(user_id) \in DOMAIN map1
                THEN /\ result' = Call("None", 0)
                     /\ user_doro_map' = DictDel(map1, DelKey(user_id))
                     /\ map_file' = file1
                ELSE /\ result' = Call("KeyError", 0)
                     /\ user_doro_map' = map1
                     /\ map_file' = file1
           ELSE \* a fresh pick: random.randint(1, total), then data[pick - 1]
                IF total < 1
                THEN /\ result' = Call("ValueError", 0)
                     /\ user_doro_map' = map1
                     /\ map_file' = file1
                ELSE IF pick > Len(datas)
                THEN /\ result' = Call("IndexError", 0)
                     /\ user_doro_map' = map1
                     /\ map_file' = file1
                ELSE /\ result' = Call("fresh", datas[pick].id)
                     /\ user_doro_map' = map2
                     /\ map_file' = WriteDictToJson(file1, map2, map_write)
        /\ returned_today' = IF result'.id # 0
                             THEN [returned_today EXCEPT ![user_id] = result'.id]
                             ELSE returned_today
        /\ UNCHANGED <<catalog_vars, pic_files, file_vars, today, max_issued>>

\* handle_doro_ending run to its end while no other task runs
HandleDoroEnding(user_id, pick, date_write, clear_write, map_write) ==
    /\ DoroEndingRequest(user_id, pick, date_write, clear_write, map_write)
    /\ UNCHANGED task_vars

\* the positions random.randint(1, total) gives (one stand-in when the range
\* is empty and it raises)
Picks == 1..(IF total < 1 THEN 1 ELSE total)

\* handle_doro_ending by every user with every pick and every outcome of the
\* writes
HandleDoroEndingCall ==
    \E user_id \in Users, pick \in Picks,
       date_write \in DictWriteOutcomes, clear_write \in DictWriteOutcomes,
       map_write \in DictWriteOutcomes :
        HandleDoroEnding(user_id, pick, date_write, clear_write, map_write)

\* handle_doro_ending by every user with every pick, the writes succeeding
HandleDoroEndingWritten ==
    \E user_id \in Users, pick \in Picks :
        HandleDoroEnding(user_id, pick, "ok", "ok", "ok")

\* the day changes
Tick ==
    /\ today < MaxDay
    /\ today' = today + 1
    /\ returned_today' = [u \in Users |-> 0]
    /\ UNCHANGED <<task_vars, catalog_vars, pic_files, file_vars, user_doro_map, current_date,
                   date_file, map_file, result, max_issued>>

\* the image cases of handle_add_doro_ending: always an image_url, never bytes
UrlImageCases == {c \in ImageCases : c.has_url /\ c.byte_size = -1}

\* the names handle_add_doro_ending is given
CommandEnglishNames == {<<"e">>}

\* handle_add_doro_ending with two names and an image: add_ending, then
\* save_to_file unless add_ending raised. ValueError is caught and reported,
\* the value save_to_file returns is not looked at.
HandleAddDoroEnding(name, english_name, c, rename, write) ==
    LET o == AddOutcome(name, english_name, TRUE, c.byte_size, c.net,
                        c.content_length, c.body_size, c.write)
        s == SaveOutcome(o.datas, o.max_id, o.total, o.dirty, rename, write)
    IN  /\ max_issued' = IF o.id > max_issued THEN o.id ELSE max_issued
        /\ IF o.out = "ok"
           THEN /\ Becomes([o EXCEPT !.dirty = s.dirty])
                /\ data_file' = s.data_file
                /\ bak_file' = s.bak_file
           ELSE /\ Becomes(o)
                /\ UNCHANGED file_vars
        /\ result' = Result("handle_add_doro_ending", name, o.out, o.id)
        /\ UNCHANGED <<task_vars, ledger_vars, returned_today>>

\* handle_add_doro_ending with every name and image, save_to_file succeeding
HandleAddDoroEndingSaved ==
    \E name \in Names, english_name \in CommandEnglishNames, c \in UrlImageCases :
        HandleAddDoroEnding(name, english_name, c, "ok", "ok")

\* the text handle_rdoro_ending is given: an id or a name
CommandTargets == {PyStr(IntToStr(n)) : n \in 1..MaxId} \cup {PyStr(s) : s \in Names}

\* handle_rdoro_ending with a target: remove_ending, whose value is not
\* looked at (only a ValueError leads to the reply of failure); nothing is
\* saved
HandleRdoroEnding(target, unlink) ==
    LET o == RemoveOutcome(target, unlink)
    IN  /\ Becomes(o)
        /\ result' = Result("handle_rdoro_ending", target.s,
                            IF o.out = "ValueError" THEN "Failure" ELSE "Success", o.id)
        /\ UNCHANGED <<task_vars, file_vars, ledger_vars, max_issued, returned_today>>

HandleRdoroEndingCall ==
    \E target \in CommandTargets, unlink \in UnlinkOutcomes :
        HandleRdoroEnding(target, unlink)

(***************************************************************************)
(* The ledger across restarts: daily picks while entries are added, the    *)
(* days pass and the process restarts                                      *)
(***************************************************************************)
NextLedger ==
    \/ Restart
    \/ HandleDoroEndingCall
    \/ HandleAddDoroEndingSaved
    \/ Tick

SpecLedger == Init /\ [][NextLedger]_vars

(***************************************************************************)
(* One run of the bot: daily picks while entries are added and removed and *)
(* the days pass                                                           *)
(***************************************************************************)
NextDaily ==
    \/ HandleDoroEndingWritten
    \/ AddEndingNoImage
    \/ HandleRdoroEndingCall
    \/ Tick

SpecDaily == Init /\ [][NextDaily]_vars

(***************************************************************************)
(* cleanup_images                                                          *)
(***************************************************************************)
\* variant of UsedImages: the english names of the entries are taken
UsedImagesByEnglishName(d) == {d[i].english_name : i \in 1..Len(d)} \ {<<>>}

\* used_images = {ending.pic for ending in self._data["datas"] if ending.pic}
UsedImages(d) == {d[i].pic : i \in 1..Len(d)} \ {<<>>}

\* What cleanup_images leaves behind when the entries are d and the picture
\* directory holds files: the list it returns, the names whose unlink raised
\* OSError and the files afterwards. failing are the files that cannot be
\* unlinked.
CleanupOutcome(d, files, failing) ==
    LET unused_images == files \ UsedImages(d)
        cleaned       == unused_images \ failing
    IN  [cleaned |-> cleaned, failed_deletions |-> unused_images \cap failing,
         pic_files |-> files \ cleaned]

\* The last call when it was cleanup_images: cleaned is the list returned,
\* failed_deletions the names that could not be unlinked
CleanupResult(o) ==
    [op |-> "cleanup_images", name |-> <<>>, out |-> "ok", id |-> 0,
     cleaned |-> o.cleaned, failed_deletions |-> o.failed_deletions]

\* a call of cleanup_images
CleanupImages(failing) ==
    LET o == CleanupOutcome(datas, pic_files, failing)
    IN  /\ pic_files' = o.pic_files
        /\ result' = CleanupResult(o)
        /\ UNCHANGED <<catalog_vars, file_vars, ledger_vars, max_issued, returned_today>>

\* cleanup_images with every set of files that cannot be unlinked
CleanupImagesCall ==
    /\ \E failing \in SUBSET pic_files : CleanupImages(failing)
    /\ UNCHANGED task_vars

\* the images whose file is written: none, a download, bytes
StoredImageCases ==
    {ImageCase(FALSE, -1, "ok", -1, 1, "ok"), ImageCase(TRUE, -1, "ok", -1, 1, "ok"),
     ImageCase(FALSE, 1, "ok", -1, 1, "ok")}

\* add_ending with these images
AddEndingStored ==
    /\ \E name \in Names, c \in StoredImageCases :
          AddEnding(name, <<"e">>, c.has_url, c.byte_size, c.net,
                    c.content_length, c.body_size, c.write)
    /\ UNCHANGED <<task_vars, file_vars, ledger_vars, returned_today>>

\* remove_ending by id, with every outcome of the unlink
RemoveEndingById ==
    /\ \E n \in 1..MaxId, unlink \in UnlinkOutcomes : RemoveEnding(PyInt(n), unlink)
    /\ UNCHANGED <<task_vars, file_vars, ledger_vars, returned_today>>

\* s with e put behind the last entry whose id is not above that of e
InsertById(s, e) ==
    LET k == Cardinality({i \in 1..Len(s) : s[i].id <= e.id})
    IN  SubSeq(s, 1, k) \o <<e>> \o SubSeq(s, k + 1, Len(s))

RECURSIVE SortByIdDescending(_)
\* variant of SortById: the largest id comes first
SortByIdDescending(d) ==
    IF d = <<>> THEN <<>>
    ELSE LET s == SortByIdDescending(SubSeq(d, 1, Len(d) - 1))
             e == d[Len(d)]
             k == Cardinality({i \in 1..Len(s) : s[i].id >= e.id})
         IN  SubSeq(s, 1, k) \o <<e>> \o SubSeq(s, k + 1, Len(s))

RECURSIVE SortById(_)

\* data.sort(key=lambda x: x.id): stable, ascending
SortById(d) ==
    IF d = <<>> THEN <<>>
    ELSE InsertById(SortById(SubSeq(d, 1, Len(d) - 1)), d[Len(d)])

\* handle_list_doro_endings: get_all_endings returns the list of the store
\* itself, which the handler sorts in place unless total is 0
HandleListDoroEndings ==
    /\ datas' = IF total = 0 THEN datas ELSE SortById(datas)
    /\ result' = Result("handle_list_doro_endings", <<>>,
                        IF total = 0 THEN "NoData" ELSE "ok", 0)
    /\ UNCHANGED <<task_vars, max_id, total, dirty, pic_files, file_vars, ledger_vars,
                   max_issued, returned_today>>

NextList == AddEndingStored \/ RemoveEndingById \/ HandleListDoroEndings

SpecList == Init /\ [][NextList]_vars

NextCleanup == AddEndingStored \/ RemoveEndingById \/ CleanupImagesCall

SpecCleanup == Init /\ [][NextCleanup]_vars

(***************************************************************************)
(* The commands that change the catalog: entries are added and removed by  *)
(* command, the data file is written with failures, the process restarts   *)
(***************************************************************************)
\* handle_add_doro_ending with every name, image and outcome of save_to_file
HandleAddDoroEndingCall ==
    \E name \in Names, english_name \in CommandEnglishNames, c \in UrlImageCases,
       rename \in RenameOutcomes, write \in SaveWriteOutcomes :
        HandleAddDoroEnding(name, english_name, c, rename, write)

NextCommands ==
    \/ HandleAddDoroEndingCall
    \/ HandleRdoroEndingCall
    \/ Restart

SpecCommands == Init /\ [][NextCommands]_vars

(***************************************************************************)
(* The store and its data file: entries are added, the store is saved and  *)
(* loaded again                                                            *)
(***************************************************************************)
\* the store as it is
Store == Outcome("", 0, datas, max_id, total, dirty, pic_files)

\* a store just constructed (DoroEndingManager.__init__)
FreshStore == Outcome("", 0, <<>>, 0, 0, FALSE, pic_files)

\* a call of save_to_file
SaveToFile(rename, write) ==
    LET s == SaveOutcome(datas, max_id, total, dirty, rename, write)
    IN  /\ dirty' = s.dirty
        /\ data_file' = s.data_file
        /\ bak_file' = s.bak_file
        /\ result' = Result("save_to_file", <<>>, s.out, 0)
        /\ UNCHANGED <<datas, max_id, total, pic_files, ledger_vars, max_issued,
                       returned_today>>

\* save_to_file with every outcome of the rename and the write
SaveToFileCall ==
    /\ \E rename \in RenameOutcomes, write \in SaveWriteOutcomes : SaveToFile(rename, write)
    /\ UNCHANGED task_vars

\* a call of load_from_file
LoadFromFile(read) ==
    LET o == LoadOutcome(Store, read)
    IN  /\ Becomes(o)
        /\ result' = Result("load_from_file", <<>>, o.out, 0)
        /\ UNCHANGED <<file_vars, ledger_vars, max_issued, returned_today>>

\* load_from_file with every outcome of the read
LoadFromFileCall ==
    /\ \E read \in LoadReadOutcomes :
          /\ read = "UnicodeDecodeError" => data_file.kind = "partial" /\ data_file.multibyte
          /\ LoadFromFile(read)
    /\ UNCHANGED task_vars

\* names that json.dumps has to escape, one it has not, and a Chinese one
QuotedNames == {<<"A">>, <<"\"", "\\">>, <<Han>>}

\* add_ending without an image, with these names
AddEndingQuoted ==
    /\ \E name \in QuotedNames, english_name \in QuotedNames :
          AddEnding(name, english_name, FALSE, -1, "ok", -1, 1, "ok")
    /\ UNCHANGED <<task_vars, file_vars, ledger_vars, returned_today>>

NextPersist == AddEndingQuoted \/ SaveToFileCall \/ LoadFromFileCall

SpecPersist == Init /\ [][NextPersist]_vars

(***************************************************************************)
(* validate_image_file                                                     *)
(***************************************************************************)
\* What validate_image_file meets on a file that exists:
\*   io            "ok", or OSError is raised by stat ("stat_OSError") or by
\*                 opening and reading the header ("open_OSError")
\*   too_large     stat.st_size > max_size
\*   known_format  imghdr.what finds a format in the header
FileCase(io, too_large, known_format) ==
    [io |-> io, too_large |-> too_large, known_format |-> known_format]

ValidateFileCases ==
    {FileCase(io, tl, kf) : io \in {"ok", "stat_OSError", "open_OSError"},
                            tl \in BOOLEAN, kf \in BOOLEAN}

\* a file that passes every check
GoodFile == FileCase("ok", FALSE, TRUE)

\* variant of PicFileExists: the file is not looked for
PicFileTakenToExist(pic) == TRUE

\* anyio.Path(pic_path).exists()
PicFileExists(pic) == pic \in pic_files

\* DoroEndingManager.validate_image_file: the kind of dict it returns
ValidateOutcome(ending_id, file) ==
    LET idx == IndexById(ending_id)
    IN  IF idx = 0 THEN "NotFound"
        ELSE IF datas[idx].pic = <<>> THEN "NoPic"
        ELSE IF ~PicFileExists(datas[idx].pic) THEN "FileMissing"
        ELSE IF file.io = "stat_OSError" THEN "CheckFailed"
        ELSE IF file.too_large THEN "TooLarge"
        ELSE IF file.io = "open_OSError" THEN "CheckFailed"
        ELSE IF ~file.known_format THEN "UnknownFormat"
        ELSE "Valid"

\* The last call when it was validate_image_file: out is the kind of dict
\* returned, id the ending_id given and file what the checks met
ValidateResult(ending_id, file) ==
    [op |-> "validate_image_file", name |-> <<>>, out |-> ValidateOutcome(ending_id, file),
     id |-> ending_id, file |-> file]

\* a call of validate_image_file
ValidateImageFile(ending_id, file) ==
    /\ result' = ValidateResult(ending_id, file)
    /\ UNCHANGED <<catalog_vars, pic_files, file_vars, ledger_vars, max_issued,
                   returned_today>>

\* validate_image_file with every id and every file
ValidateImageFileCall ==
    /\ \E ending_id \in 1..MaxId, file \in ValidateFileCases :
          ValidateImageFile(ending_id, file)
    /\ UNCHANGED task_vars

\* a file of the picture directory is deleted from outside the program (the
\* deletion is recorded in place of the last call)
ExternalDelete ==
    /\ \E f \in pic_files :
          /\ pic_files' = pic_files \ {f}
          /\ result' = Result("unlink", f, "ok", 0)
    /\ UNCHANGED <<task_vars, catalog_vars, file_vars, ledger_vars, max_issued,
                   returned_today>>

NextValidate ==
    \/ AddEndingStored
    \/ RemoveEndingById
    \/ ExternalDelete
    \/ ValidateImageFileCall

SpecValidate == Init /\ [][NextValidate]_vars

(***************************************************************************)
(* Tasks that call the store at the same time: every method of the store   *)
(* runs its body under "async with self._lock"                             *)
(***************************************************************************)
\* the calls of the tasks, with the outcomes of the I/O they meet
AddCall(name, english_name, image) ==
    [op |-> "add_ending", name |-> name, english_name |-> english_name, image |-> image]

RemoveCall(target, unlink) == [op |-> "remove_ending", target |-> target, unlink |-> unlink]

UpdateCall(target, kw) == [op |-> "update_ending", target |-> target, kw |-> kw]

SaveCall(rename, write) == [op |-> "save_to_file", rename |-> rename, write |-> write]

LoadCall(read) == [op |-> "load_from_file", read |-> read]

CleanupCall(fail) == [op |-> "cleanup_images", fail |-> fail]

ValidateCall(ending_id, file) ==
    [op |-> "validate_image_file", ending_id |-> ending_id, file |-> file]

\* the images of the add_ending calls of the tasks: none, a download that
\* succeeds, a download that fails
TaskImageCases ==
    {ImageCase(FALSE, -1, "ok", -1, 1, "ok"), ImageCase(TRUE, -1, "ok", -1, 1, "ok"),
     ImageCase(TRUE, -1, "ClientError", -1, 1, "ok")}

AddCalls == {AddCall(name, <<"e">>, c) : name \in Names, c \in TaskImageCases}

\* update_ending(target, name=name)
RenameKwargs(name) == Kwargs(TRUE, name, FALSE, <<>>, FALSE, 0, FALSE, <<>>, FALSE)

RemoveCalls == {RemoveCall(PyInt(n), "ok") : n \in 1..MaxId}

\* the calls of the tasks: every method, add_ending with a download
TaskCalls ==
    {AddCall(<<"A">>, <<"e">>, ImageCase(TRUE, -1, "ok", -1, 1, "ok"))}
        \cup RemoveCalls
        \cup {UpdateCall(1, RenameKwargs(<<"a">>)), SaveCall("ok", "ok"), LoadCall("ok"),
              CleanupCall(FALSE), ValidateCall(1, GoodFile)}

\* a task that has called a method and is at "async with self._lock"
Waiting(call) == [pc |-> "waiting", call |-> call]

\* A task in the body of its method. name_exists and new_id are the locals of
\* add_ending set before its first await; pc is "download" while add_ending
\* is suspended in _download_and_save_image, "body" otherwise.
InBody(call, name_exists, new_id) ==
    [pc |-> IF call.op = "add_ending" /\ call.image.has_url /\ ~(call.image.byte_size > 0)
               /\ ~name_exists
            THEN "download" ELSE "body",
     call |-> call, name_exists |-> name_exists, new_id |-> new_id]

\* the task is inside the body of a method of the store
Inside(c) == tasks[c].pc \in {"body", "download"}

\* variant of Locked: the lock is never seen as held
LockedNever == FALSE

\* asyncio.Lock.locked()
Locked == lock # 0

\* variant of HolderAfterAcquire: add_ending lets go of the lock while it
\* downloads
HolderUnlessDownloading(c, call) ==
    IF call.op = "add_ending" /\ call.image.has_url THEN 0 ELSE c

\* the task that holds the lock when c has acquired it for its call
HolderAfterAcquire(c, call) == c

\* a task calls a method of the store and reaches "async with self._lock"
Call(c, call) ==
    /\ tasks[c] = Idle
    /\ tasks' = [tasks EXCEPT ![c] = Waiting(call)]
    /\ UNCHANGED <<lock, downloader, catalog_vars, pic_files, file_vars, ledger_vars,
                   result, max_issued, returned_today>>

\* The task acquires the lock and runs its body up to the first await:
\* add_ending has looked the name up and has computed new_id.
Enter(c) ==
    LET call == tasks[c].call
    IN  /\ tasks[c].pc = "waiting"
        /\ ~Locked
        /\ lock' = HolderAfterAcquire(c, call)
        /\ tasks' = [tasks EXCEPT ![c] =
                        IF call.op = "add_ending"
                        THEN InBody(call, NameExists(call.name), NewId)
                        ELSE InBody(call, FALSE, 0)]
        /\ UNCHANGED <<downloader, catalog_vars, pic_files, file_vars, ledger_vars,
                       result, max_issued, returned_today>>

\* the rest of add_ending, with the locals it set before its first await
AddEndingResume(t) ==
    LET call == t.call
        o == AddAfter(t.name_exists, t.new_id, call.name, call.english_name,
                      call.image.has_url, call.image.byte_size, call.image.net,
                      call.image.content_length, call.image.body_size, call.image.write)
    IN  /\ Becomes(o)
        /\ max_issued' = IF o.id > max_issued THEN o.id ELSE max_issued
        /\ result' = Result("add_ending", call.name, o.out, o.id)
        /\ UNCHANGED <<file_vars, ledger_vars, returned_today>>

\* variant of HolderAfterExit: the lock stays with the task that leaves
HolderStaysAfterExit(c) == c

\* the holder of the lock when c has left "async with self._lock", by return
\* or by exception: __aexit__ releases it
HolderAfterExit(c) == 0

\* The task runs the rest of its body and leaves "async with self._lock",
\* which releases the lock, by return or by exception.
Leave(c) ==
    LET t == tasks[c]
        call == t.call
    IN  /\ Inside(c)
        /\ CASE call.op = "add_ending" -> AddEndingResume(t)
             [] call.op = "remove_ending" ->
                   /\ RemoveEnding(call.target, call.unlink)
                   /\ UNCHANGED <<file_vars, ledger_vars, returned_today>>
             [] call.op = "update_ending" ->
                   /\ UpdateEnding(call.target, call.kw)
                   /\ UNCHANGED <<file_vars, ledger_vars, returned_today>>
             [] call.op = "save_to_file" -> SaveToFile(call.rename, call.write)
             [] call.op = "load_from_file" -> LoadFromFile(call.read)
             [] call.op = "cleanup_images" ->
                   CleanupImages(IF call.fail THEN pic_files ELSE {})
             [] call.op = "validate_image_file" ->
                   ValidateImageFile(call.ending_id, call.file)
        /\ lock' = HolderAfterExit(c)
        /\ tasks' = [tasks EXCEPT ![c] = Idle]
        /\ UNCHANGED downloader

TaskCall == \E c \in Callers, call \in TaskCalls : Call(c, call)

TaskEnter == \E c \in Callers : Enter(c)

TaskLeave == \E c \in Callers : Leave(c)

\* two tasks that add and remove entries
AddTaskCall == \E c \in Callers, call \in AddCalls \cup RemoveCalls : Call(c, call)

NextAdds == AddTaskCall \/ TaskEnter \/ TaskLeave

SpecAdds == Init /\ [][NextAdds]_vars

NextTasks == TaskCall \/ TaskEnter \/ TaskLeave

\* Tasks that run to completion: calls that return and calls that raise
\* (a failed download, a duplicate name, an update of a missing entry)
FairCalls ==
    {AddCall(<<"A">>, <<"e">>, c) :
        c \in {ImageCase(TRUE, -1, "ok", -1, 1, "ok"),
               ImageCase(TRUE, -1, "ClientError", -1, 1, "ok")}}
        \cup RemoveCalls
        \cup {UpdateCall(1, RenameKwargs(<<"a">>)), SaveCall("ok", "OSError")}

FairTaskCall == \E c \in Callers, call \in FairCalls : Call(c, call)

NextFair == FairTaskCall \/ TaskEnter \/ TaskLeave

\* Every file or network step returns, so a task inside a body goes on to
\* leave it (weak fairness of Leave); asyncio.Lock wakes its waiters in the
\* order of their arrival and a newcomer queues behind them, so a waiting
\* task is not passed over for ever (strong fairness of Enter).
SpecFair ==
    /\ Init
    /\ [][NextFair]_vars
    /\ \A c \in Callers : WF_vars(Leave(c)) /\ SF_vars(Enter(c))

\* A task of handle_doro_ending suspended in "await anyio.Path(...).resolve()",
\* its first await: the user, the day it read, the branch it took and the
\* id of doro_info, whose image it replies with
Resolving(user_id, on, out, id) ==
    [pc |-> "resolve", user_id |-> user_id, on |-> on, out |-> out, id |-> id]

\* a task starts handle_doro_ending and runs it to its first await, or to its
\* end when it raises or finds no entry
RequestBegin(c, user_id, pick) ==
    /\ tasks[c] = Idle
    /\ DoroEndingRequest(user_id, pick, "ok", "ok", "ok")
    /\ tasks' = [tasks EXCEPT ![c] =
                    IF result'.out \in {"stored", "fresh"}
                    THEN Resolving(user_id, today, result'.out, result'.id)
                    ELSE Idle]
    /\ UNCHANGED <<lock, downloader>>

\* the task resumes and replies with the image (get_doro_ending.finish)
RequestFinish(c) ==
    /\ tasks[c].pc = "resolve"
    /\ result' = Result("get_doro_ending.finish", MapKey(tasks[c].user_id).s, "image",
                        tasks[c].id)
    /\ tasks' = [tasks EXCEPT ![c] = Idle]
    /\ UNCHANGED <<lock, downloader, catalog_vars, pic_files, file_vars, ledger_vars,
                   max_issued, returned_today>>

DoroEndingRequestBegin ==
    \E c \in Callers, user_id \in Users, pick \in Picks : RequestBegin(c, user_id, pick)

DoroEndingRequestFinish == \E c \in Callers : RequestFinish(c)

NextRequests ==
    \/ AddEndingNoImage
    \/ Tick
    \/ DoroEndingRequestBegin
    \/ DoroEndingRequestFinish

SpecRequests == Init /\ [][NextRequests]_vars

\* Daily picks between the steps of tasks that add and remove entries:
\* handle_doro_ending reads the store without the lock and has no await
\* between random.randint and data[doro_ending - 1]
NextPick == AddTaskCall \/ TaskEnter \/ TaskLeave \/ HandleDoroEndingWritten

SpecPick == Init /\ [][NextPick]_vars

SpecTasks == Init /\ [][NextTasks]_vars

(***************************************************************************)
(* Entries are added, edited and saved                                     *)
(***************************************************************************)
\* add_ending without an image, with every name and english name
AddEndingNamed ==
    /\ \E name \in Names, english_name \in EnglishNames :
          AddEnding(name, english_name, FALSE, -1, "ok", -1, 1, "ok")
    /\ UNCHANGED <<task_vars, file_vars, ledger_vars, returned_today>>

\* update_ending of the first entry with every set of keyword arguments
UpdateFirstEnding ==
    /\ \E kw \in UpdateKwargs : UpdateEnding(1, kw)
    /\ UNCHANGED <<task_vars, file_vars, ledger_vars, returned_today>>

\* save_to_file that meets no error
SaveToFileWritten ==
    /\ SaveToFile("ok", "ok")
    /\ UNCHANGED task_vars

NextEdit == AddEndingNamed \/ UpdateFirstEnding \/ SaveToFileWritten

SpecEdit == Init /\ [][NextEdit]_vars

(***************************************************************************)
(* Entries are added and edited by id, with names that collide             *)
(***************************************************************************)
\* the keyword arguments that are attributes of names and ids
KeyKwargs == {kw \in UpdateKwargs : ~kw.has_pic /\ ~kw.has_other}

\* update_ending with every target and these keyword arguments
UpdateEndingKeyed ==
    /\ \E target \in 1..MaxId, kw \in KeyKwargs : UpdateEnding(target, kw)
    /\ UNCHANGED <<task_vars, file_vars, ledger_vars, returned_today>>

\* update_ending(target, id=id)
UpdateEndingId ==
    /\ \E target \in 1..MaxId, id \in 1..MaxId :
          UpdateEnding(target, Kwargs(FALSE, <<>>, FALSE, <<>>, TRUE, id, FALSE, <<>>, FALSE))
    /\ UNCHANGED <<task_vars, file_vars, ledger_vars, returned_today>>

\* the store under the calls that write it and the list command, saved in between
NextDirty ==
    \/ AddEndingNoImage
    \/ RemoveEndingById
    \/ UpdateEndingId
    \/ SaveToFileWritten
    \/ HandleListDoroEndings

SpecDirty == Init /\ [][NextDirty]_vars

\* a restart whose reads succeed
RestartRead == Startup("ok", "ok", "ok", "ok")

\* The ledger while every write of a file succeeds: daily picks, entries
\* added and saved, the days passing and the process restarting
NextWritten ==
    \/ HandleDoroEndingWritten
    \/ AddEndingNoImage
    \/ SaveToFileWritten
    \/ Tick
    \/ RestartRead

SpecWritten == Init /\ [][NextWritten]_vars

NextConflict == AddEndingNamed \/ UpdateEndingKeyed

SpecConflict == Init /\ [][NextConflict]_vars

(***************************************************************************)
(* Properties of the catalog under add_ending and remove_ending            *)
(***************************************************************************)
\* some live entry has the name
LiveName(name) == \E i \in 1..Len(datas) : datas[i].name = name

\* the ids of the live entries
LiveIds == {datas[i].id : i \in 1..Len(datas)}

\* the largest id among the live entries, 0 when there are none
LargestLiveId == IF LiveIds = {} THEN 0 ELSE CHOOSE m \in LiveIds : \A n \in LiveIds : n <= m

\* C1: after every add_ending or remove_ending call, successful or failed, the
\* counter total equals the number of entries in the entry sequence.
C1_TotalIsLen == total = Len(datas)

\* C1 witness: a failed call (an add whose image could not be stored, a remove
\* that found nothing) has just returned on a catalog that holds entries.
C1_Witness ==
    /\ result.out \in {"SaveFailed", "RuntimeError", "False"}
    /\ total = 2

\* C2: max_id equals the largest id among the live entries, or 0 when there are
\* none; removing the entry that holds max_id recomputes it to the largest
\* remaining id (0 if none remain), removing another entry leaves it unchanged.
C2_MaxIdIsLargestLiveId ==
    /\ max_id = LargestLiveId
    /\ [][/\ max_id' = LargestLiveId'
          /\ (result'.op = "remove_ending" /\ result'.out = "True" /\ Len(datas') < Len(datas))
                => IF result'.id = max_id
                   THEN max_id' = LargestLiveId' /\ (datas' = <<>> => max_id' = 0)
                   ELSE max_id' = max_id]_vars

\* C2 witness: the entry holding max_id was removed while others remain, and
\* max_id went down to the largest remaining id.
C2_Witness ==
    /\ result.op = "remove_ending"
    /\ result.out = "True"
    /\ datas # <<>>
    /\ result.id > max_id

\* C3: add_ending with a name equal to the name of a live entry fails with the
\* duplicate-name error, leaves entries, total, max_id and the dirty flag
\* unchanged and writes no image file.
C3_DuplicateNameRejected ==
    [][(result'.op = "add_ending" /\ LiveName(result'.name))
          => (/\ result'.out = "DuplicateName"
              /\ UNCHANGED <<datas, total, max_id, dirty, pic_files>>)]_vars

\* C3 witness: add_ending has just failed with the duplicate-name error.
C3_Witness ==
    /\ result.op = "add_ending"
    /\ result.out = "DuplicateName"
    /\ \E i \in 1..Len(datas) : datas[i].pic # <<>>

\* C5 as claimed: each successful add allocates an id strictly greater than
\* every id allocated by an earlier add.
C5_IdsNeverReused ==
    [][(result'.op = "add_ending" /\ result'.out = "ok" /\ Len(datas') > Len(datas))
          => result'.id > max_issued]_vars

\* C5 as amended: each successful add allocates max_id + 1, an id strictly
\* greater than the id of every entry live at that moment, and appends the
\* entry with that id.
C5_IdAboveLiveIds ==
    [][(result'.op = "add_ending" /\ result'.out = "ok" /\ Len(datas') > Len(datas))
          => /\ result'.id = max_id + 1
             /\ \A n \in LiveIds : n < result'.id
             /\ datas'[Len(datas')].id = result'.id
             /\ max_id' = result'.id]_vars

\* C5 witness: a successful add has allocated an id below one allocated before.
C5_Witness ==
    /\ result.op = "add_ending"
    /\ result.out = "ok"
    /\ result.id < max_issued

\* the image of the case cannot be stored: the download fails or times out,
\* the declared or the actual size exceeds max_size, or the file write fails
ImageCannotBeStored(c) ==
    /\ c.has_url \/ c.byte_size > 0
    /\ IF c.byte_size > 0
       THEN c.byte_size > max_size \/ c.write # "ok"
       ELSE \/ c.net # "ok"
            \/ c.content_length > max_size
            \/ c.body_size > max_size
            \/ c.write # "ok"

\* C10: when add_ending is given an image source and the image cannot be
\* stored, the call fails with the SaveFailed error (a ValueError), and
\* entries, total, max_id and dirty are unchanged.
C10_ImageFailureIsSaveFailed ==
    [][\A name \in Names, english_name \in EnglishNames, c \in ImageCases :
          (/\ ~LiveName(name)
           /\ ImageCannotBeStored(c)
           /\ AddEnding(name, english_name, c.has_url, c.byte_size, c.net,
                        c.content_length, c.body_size, c.write))
            => (/\ result'.out = "SaveFailed"
                /\ UNCHANGED <<datas, total, max_id, dirty>>)]_vars

(***************************************************************************)
(* Properties of the catalog under add_ending, update_ending and           *)
(* remove_ending                                                           *)
(***************************************************************************)
\* C4: in every state reachable from the empty catalog by add_ending,
\* update_ending and remove_ending, no two live entries have the same name.
C4_NamesUnique ==
    \A i, j \in 1..Len(datas) : datas[i].name = datas[j].name => i = j

(***************************************************************************)
(* Properties of the daily picks                                           *)
(***************************************************************************)
\* the step is a handle_doro_ending request of the user
RequestBy(u) ==
    /\ result'.op = "handle_doro_ending"
    /\ result'.name = MapKey(u).s
    /\ today' = today

\* C6: a request by a user to whom an entry id was returned earlier on the
\* same day, that entry still being in the catalog, returns the same entry id
\* and leaves the ledger mapping unchanged.
C6_SamePickOnSameDay ==
    [][\A u \in Users :
          (RequestBy(u) /\ returned_today[u] # 0 /\ returned_today[u] \in LiveIds)
            => (/\ result'.out = "stored"
                /\ result'.id = returned_today[u]
                /\ user_doro_map' = user_doro_map)]_vars

\* C6 witness: a second request of the day has returned the stored pick while
\* the catalog holds another entry that a fresh pick could have given.
C6_Witness ==
    /\ result.op = "handle_doro_ending"
    /\ result.out = "stored"
    /\ Len(datas) = 2
    /\ \E u \in Users : result.name = MapKey(u).s /\ returned_today[u] = result.id

\* C7, first part: a request made when the stored date differs from today
\* sets the in-memory and the persisted date to today and leaves, in memory
\* and in the mapping file, no assignment recorded on another day.
C7_ResetOnDateChange ==
    [][\A u \in Users :
          (RequestBy(u) /\ current_date # today)
            => (/\ current_date' = today
                /\ date_file' = JsonFile(DateDict(today))
                /\ \A k \in DOMAIN user_doro_map' : user_doro_map'[k].on = today
                /\ map_file'.kind = "doc"
                /\ \A k \in DOMAIN map_file'.dict : map_file'.dict[k].on = today)]_vars

\* C7, second part: an assignment a request returns was recorded today.
C7_NoEarlierAssignmentReturned ==
    [][\A u \in Users :
          (RequestBy(u) /\ result'.out = "stored")
            => (/\ MapKey(u) \in DOMAIN user_doro_map
                /\ user_doro_map[MapKey(u)].on = today)]_vars

\* C7: a daily-pick request made when the ledger's stored date differs from
\* today's date clears all assignments, sets the in-memory and persisted date
\* to today and persists an empty mapping; hence no assignment recorded on an
\* earlier date is ever returned on a later date.
C7_DateChangeResetsLedger == C7_ResetOnDateChange /\ C7_NoEarlierAssignmentReturned

\* C8: when the user's stored assignment refers to an id that is no longer in
\* the catalog (and the catalog is not empty), the request removes the stale
\* assignment, picks a fresh entry, records it and returns it, raising no
\* error.
C8_StaleAssignmentReplaced ==
    [][\A u \in Users :
          (/\ RequestBy(u)
           /\ current_date = today
           /\ MapKey(u) \in DOMAIN user_doro_map
           /\ user_doro_map[MapKey(u)].id \notin LiveIds
           /\ datas # <<>>)
            => (/\ result'.out = "fresh"
                /\ result'.id \in LiveIds
                /\ MapKey(u) \in DOMAIN user_doro_map'
                /\ user_doro_map'[MapKey(u)].id = result'.id)]_vars

\* C9: a request that needs a fresh pick while the catalog has no entry
\* reports "no data" to the caller, raises nothing and records no assignment.
C9_EmptyCatalogReportsNoData ==
    [][\A u \in Users :
          (/\ RequestBy(u)
           /\ current_date # today \/ MapKey(u) \notin DOMAIN user_doro_map
           /\ datas = <<>>)
            => (/\ result'.out = "NoData"
                /\ MapKey(u) \notin DOMAIN user_doro_map')]_vars

(***************************************************************************)
(* Properties of save_to_file and load_from_file                           *)
(***************************************************************************)
\* the step is a call of save_to_file
SaveStep == result'.op = "save_to_file" /\ UNCHANGED <<datas, max_id, total>>

\* the step is a call of save_to_file that wrote the document
SavedStep == SaveStep /\ dirty /\ result'.out = "True"

\* C13: save_to_file on a dirty store followed by load_from_file in a fresh
\* store on the same data file gives the entries (ids, names, english names,
\* pics, order), the max_id and the total the store had before saving.
C13_SaveLoadRoundTrip ==
    [][SavedStep =>
          LET loaded == LoadFrom(data_file', FreshStore, "ok")
          IN  /\ loaded.out = "True"
              /\ loaded.datas = datas
              /\ loaded.max_id = max_id
              /\ loaded.total = total]_vars

\* C13 witness: a dirty store with two entries, one named with a quote and a
\* backslash, has just been saved.
C13_Witness ==
    /\ result.op = "save_to_file"
    /\ result.out = "True"
    /\ data_file = CatalogDoc(datas, max_id, total)
    /\ Len(datas) = 2
    /\ \E i \in 1..2 : datas[i].name = <<"\"", "\\">>

\* C17: whatever save_to_file does, rename and write failures included, the
\* data file that held a complete document holds a complete document
\* afterwards, the one it held or the one of the store.
C17_DataFileAlwaysComplete ==
    [][(SaveStep /\ data_file.kind = "doc")
          => data_file' \in {data_file, CatalogDoc(datas, max_id, total)}]_vars

\* C18: when save_to_file fails it returns failure, the dirty flag stays true
\* and the store is unchanged, so that the next save_to_file writes again.
C18_FailedSaveStaysDirty ==
    [][(SaveStep /\ result'.out = "False")
          => /\ dirty /\ dirty'
             /\ UNCHANGED <<datas, max_id, total>>
             /\ SaveFiles(data_file', bak_file', datas', max_id', total', dirty',
                          "ok", "ok").data_file = CatalogDoc(datas, max_id, total)]_vars

\* C18 witness: save_to_file has just failed on a store with entries, after
\* the data file was renamed away.
C18_Witness ==
    /\ result.op = "save_to_file"
    /\ result.out = "False"
    /\ datas # <<>>
    /\ data_file.kind # "doc"
    /\ bak_file.kind = "doc"

\* C19: save_to_file on a store that is not dirty writes and renames no file,
\* leaves the store and the dirty flag as they are and returns success.
C19_CleanSaveIsNoOp ==
    [][(SaveStep /\ ~dirty)
          => /\ result'.out = "True"
             /\ UNCHANGED <<datas, max_id, total, dirty, data_file, bak_file, pic_files>>]_vars

\* C19 witness: save_to_file has just returned on a store that was not dirty
\* and differs from the data file.
C19_Witness ==
    /\ result.op = "save_to_file"
    /\ result.out = "True"
    /\ ~dirty
    /\ data_file # CatalogDoc(datas, max_id, total)

\* C20: after a successful save_to_file that overwrote an existing data file,
\* the backup holds what the data file held just before.
C20_BackupHoldsPrevious ==
    [][(SavedStep /\ data_file.kind # "absent") => bak_file' = data_file]_vars

\* C20 witness: the data file was overwritten by a different document and the
\* backup is not what the store holds.
C20_Witness ==
    /\ result.op = "save_to_file"
    /\ result.out = "True"
    /\ data_file.kind = "doc"
    /\ bak_file.kind = "doc"
    /\ bak_file # data_file

(***************************************************************************)
(* Properties of the commands that change the catalog                      *)
(***************************************************************************)
\* the step is handle_add_doro_ending whose save_to_file met no I/O error
AddCommandWritten ==
    \E name \in Names, english_name \in CommandEnglishNames, c \in UrlImageCases :
        HandleAddDoroEnding(name, english_name, c, "ok", "ok")

\* the step is handle_rdoro_ending
RemoveCommand ==
    \E target \in CommandTargets, unlink \in UnlinkOutcomes :
        HandleRdoroEnding(target, unlink)

\* C15: after an add command that added an entry, its file write not failing,
\* and after a remove command that removed an entry, the store is not dirty
\* and the data file holds the document of the store.
C15_CommandMutationsSaved ==
    [][(\/ AddCommandWritten /\ result'.out = "ok"
        \/ RemoveCommand /\ Len(datas') < Len(datas))
          => /\ ~dirty'
             /\ data_file' = CatalogDoc(datas', max_id', total')]_vars

\* C16: the remove command reports NotFound when its target resolves to no
\* entry, and Success only when an entry was removed.
C16_RemoveCommandReportsNotFound ==
    [][RemoveCommand
          => /\ Len(datas') = Len(datas) => result'.out = "NotFound"
             /\ result'.out = "Success" => Len(datas') = Len(datas) - 1]_vars

(***************************************************************************)
(* Properties of cleanup_images                                            *)
(***************************************************************************)
\* the step is a call of cleanup_images
CleanupStep == result'.op = "cleanup_images" /\ UNCHANGED catalog_vars

\* the pics of the entries
LivePics == {datas[i].pic : i \in 1..Len(datas)}

\* C14: cleanup_images deletes no file whose name is the pic of an entry; when
\* no unlink fails, every file left in the picture directory is the pic of an
\* entry and the list returned is the set of the names deleted.
C14_CleanupKeepsLivePics ==
    [][CleanupStep
          => /\ pic_files' \subseteq pic_files
             /\ (pic_files \ pic_files') \cap LivePics = {}
             /\ result'.failed_deletions = {}
                   => /\ pic_files' \subseteq LivePics
                      /\ result'.cleaned = pic_files \ pic_files']_vars

\* C14 witness: cleanup_images has just deleted a file, no unlink failed, and
\* the file of an entry is still there.
C14_Witness ==
    /\ result.op = "cleanup_images"
    /\ result.cleaned # {}
    /\ result.failed_deletions = {}
    /\ pic_files # {}
    /\ pic_files \subseteq LivePics

(***************************************************************************)
(* Properties of the tasks that call the store at the same time            *)
(***************************************************************************)
\* C11: at most one task is inside the body of load_from_file, save_to_file,
\* add_ending, remove_ending, update_ending, cleanup_images or
\* validate_image_file, and the task that is inside holds the lock.
C11_OneTaskInsideAtATime ==
    \A c \in Callers :
        Inside(c) => /\ lock = c
                     /\ \A d \in Callers : Inside(d) => d = c

\* C11 witness: a task is suspended in the download of add_ending while the
\* other task has called a method and waits for the lock.
C11_Witness ==
    \E c, d \in Callers :
        /\ tasks[c].pc = "download"
        /\ lock = c
        /\ tasks[d].pc = "waiting"
        /\ tasks[d].call.op \in {"remove_ending", "save_to_file", "cleanup_images"}

\* the step is the end of the add_ending call of the task
AddLeave(c) ==
    /\ Inside(c)
    /\ tasks[c].call.op = "add_ending"
    /\ tasks'[c] = Idle

\* no two entries of d have the same id, and no two the same name
DistinctIdsAndNames(d) ==
    \A i, j \in 1..Len(d) : i # j => d[i].id # d[j].id /\ d[i].name # d[j].name

\* C12: however the add_ending calls of two tasks interleave, one suspended
\* in its download included, each call ends as add_ending run alone on the
\* catalog of that moment ends: the calls take effect one after the other,
\* the entries have distinct ids, and of two calls with the same name the
\* second one fails with the duplicate-name error.
C12_ConcurrentAddsAreSequential ==
    [][\A c \in Callers :
          AddLeave(c) =>
             LET call == tasks[c].call
                 o    == AddOutcome(call.name, call.english_name, call.image.has_url,
                                    call.image.byte_size, call.image.net,
                                    call.image.content_length, call.image.body_size,
                                    call.image.write)
             IN  /\ datas' = o.datas
                 /\ max_id' = o.max_id
                 /\ total' = o.total
                 /\ pic_files' = o.pic_files
                 /\ result'.out = o.out
                 /\ DistinctIdsAndNames(datas')
                 /\ (\E i \in 1..Len(datas) : datas[i].name = call.name)
                       => result'.out = "DuplicateName"]_vars

\* C12 witness: an add_ending call that downloaded its image has just added
\* an entry while the other task was waiting with an add_ending call of the
\* same name.
C12_Witness ==
    \E c, d \in Callers :
        /\ c # d
        /\ tasks[c] = Idle
        /\ result.op = "add_ending"
        /\ result.out = "ok"
        /\ datas[Len(datas)].id = result.id
        /\ datas[Len(datas)].pic # <<>>
        /\ tasks[d].pc = "waiting"
        /\ tasks[d].call.op = "add_ending"
        /\ tasks[d].call.name = result.name

(***************************************************************************)
(* Properties of update_ending                                             *)
(***************************************************************************)
\* the step is a call of update_ending
UpdateStep == result'.op = "update_ending" /\ UNCHANGED <<total, max_id, pic_files>>

\* the name is not the one of the entry update_ending(target, ...) edits, and
\* another entry holds it
NameHeldByAnother(target, name) ==
    /\ datas[IndexById(target)].name # name
    /\ \E j \in 1..Len(datas) : j # IndexById(target) /\ datas[j].name = name

\* the english name is not the one of the entry update_ending(target, ...)
\* edits, and another entry holds it
EnglishNameHeldByAnother(target, english_name) ==
    /\ datas[IndexById(target)].english_name # english_name
    /\ \E j \in 1..Len(datas) : j # IndexById(target) /\ datas[j].english_name = english_name

\* C21: update_ending with a new name, or a new english_name, that another
\* entry holds fails with the duplicate error of that field, changes no entry
\* and does not set dirty, also when the other field is supplied without
\* conflict.
C21_ConflictingUpdateRejected ==
    [][\A target \in 1..MaxId, kw \in KeyKwargs :
          (/\ UpdateEnding(target, kw)
           /\ IndexById(target) # 0
           /\ \/ kw.has_name /\ NameHeldByAnother(target, kw.name)
              \/ kw.has_english_name /\ EnglishNameHeldByAnother(target, kw.english_name))
          => /\ result'.out \in {"DuplicateName", "DuplicateEnglishName"}
             /\ result'.out = "DuplicateName"
                   => kw.has_name /\ NameHeldByAnother(target, kw.name)
             /\ result'.out = "DuplicateEnglishName"
                   => kw.has_english_name
                      /\ EnglishNameHeldByAnother(target, kw.english_name)
             /\ datas' = datas
             /\ dirty' = dirty]_vars

\* C22: update_ending changes the name and the english_name of entries only:
\* the ids, the pics and the order of the entries, total and max_id stay.
C22_UpdateKeepsIdsAndPics ==
    [][UpdateStep
          => /\ Len(datas') = Len(datas)
             /\ \A i \in 1..Len(datas) :
                   datas'[i].id = datas[i].id /\ datas'[i].pic = datas[i].pic
             /\ total' = total
             /\ max_id' = max_id]_vars

\* C23: update_ending sets dirty only when a field of an entry changed value;
\* when no field changed, dirty is what it was.
C23_DirtyOnlyOnChange ==
    [][UpdateStep
          => /\ datas' = datas => dirty' = dirty
             /\ datas' # datas => dirty']_vars

\* C23 witness: update_ending has returned the entry of a saved store without
\* changing it, and the store is not dirty.
C23_Witness ==
    /\ result.op = "update_ending"
    /\ result.out = "ok"
    /\ ~dirty
    /\ data_file = CatalogDoc(datas, max_id, total)
    /\ Len(datas) = 2

\* C29: add_ending adds an entry with a new name whatever its english_name,
\* and no update_ending call makes two entries share an english_name that
\* they did not share before.
C29_SharedEnglishNameOnlyByAdd ==
    [][/\ \A name \in Names, english_name \in EnglishNames :
             (/\ AddEnding(name, english_name, FALSE, -1, "ok", -1, 1, "ok")
              /\ ~NameExists(name))
                => /\ result'.out = "ok"
                   /\ datas' = Append(datas, DoroEnding(max_id + 1, name, english_name, <<>>))
       /\ UpdateStep
             => \A i, j \in 1..Len(datas) :
                   (i # j /\ datas'[i].english_name = datas'[j].english_name)
                      => datas[i].english_name = datas[j].english_name]_vars

(***************************************************************************)
(* Properties of load_from_file                                            *)
(***************************************************************************)
\* the step is a call of load_from_file
LoadStep == result'.op = "load_from_file" /\ UNCHANGED <<data_file, bak_file, pic_files>>

\* C24: load_from_file returns False when the data file is absent or is no
\* complete document, and whenever it does not return True the entries,
\* max_id and total are what they were.
C24_FailedLoadKeepsCatalog ==
    [][LoadStep
          => /\ data_file.kind # "doc" => result'.out = "False"
             /\ result'.out # "True" => UNCHANGED <<datas, max_id, total>>]_vars

(***************************************************************************)
(* Properties of validate_image_file                                       *)
(***************************************************************************)
\* the step is a call of validate_image_file
ValidateStep == result'.op = "validate_image_file" /\ UNCHANGED <<max_issued, tasks>>

\* the entries with the id
EntriesWithId(ending_id) == {i \in 1..Len(datas) : datas[i].id = ending_id}

C26_LivePicNamesExistingFile ==
    \A i \in 1..Len(datas) : datas[i].pic # <<>> => datas[i].pic \in pic_files

(***************************************************************************)
(* Properties of _download_and_save_image                                  *)
(***************************************************************************)
\* the step is a call of _download_and_save_image
DownloadStep == result'.op = "_download_and_save_image" /\ UNCHANGED datas

\* C27: _download_and_save_image reports failure and writes no file whenever
\* the declared Content-Length exceeds max_size (the body is then not read)
\* or the length of the body exceeds max_size; a file is written only after
\* both checks have passed.
C27_OversizedDownloadNotWritten ==
    [][DownloadStep
          => LET r == result'
             IN  /\ (r.net = "ok" /\ r.content_length > max_size)
                       => r.out = "False" /\ ~r.read /\ pic_files' = pic_files
                 /\ r.body_size > max_size
                       => r.out = "False" /\ pic_files' = pic_files
                 /\ pic_files' # pic_files
                       => /\ r.read
                          /\ r.content_length <= max_size
                          /\ r.body_size <= max_size]_vars

\* C27 witness: a download whose Content-Length was within the limit and whose
\* body was not has been refused, and another download was written before.
C27_Witness ==
    /\ result.op = "_download_and_save_image"
    /\ result.out = "False"
    /\ result.content_length = max_size
    /\ result.body_size = max_size + 1
    /\ pic_files # {}

(***************************************************************************)
(* Properties of _sanitize_filename                                        *)
(***************************************************************************)
\* s ends with t
EndsWith(s, t) == Len(t) <= Len(s) /\ LastChars(s, Len(t)) = t

\* C28: _sanitize_filename returns a string of at most max_filename_length
\* characters with none of < > : " / \ | ? * in it; when the name has to be
\* cut and its extension is shorter than the limit, the result ends with the
\* extension of the name.
C28_SanitizedNameBoundedAndLegal ==
    result.op = "_sanitize_filename"
        => LET filename == result.name
               out      == result.out
               suffix   == PathSuffix(ReplaceIllegal(filename))
           IN  /\ Len(out) <= max_filename_length
               /\ \A i \in 1..Len(out) : out[i] \notin IllegalChars
               /\ (Len(filename) > max_filename_length /\ Len(suffix) < max_filename_length)
                     => EndsWith(out, suffix)

\* C28 witness: a name longer than the limit, with an illegal character and
\* an extension, has been cut to the limit and kept the extension.
C28_Witness ==
    /\ result.op = "_sanitize_filename"
    /\ Len(result.name) > max_filename_length
    /\ \E i \in 1..Len(result.name) : result.name[i] \in IllegalChars
    /\ PathSuffix(ReplaceIllegal(result.name)) = <<".", "a">>
    /\ Len(result.out) = max_filename_length
    /\ EndsWith(result.out, <<".", "a">>)

(***************************************************************************)
(* Properties of the lookup of remove_ending                               *)
(***************************************************************************)
\* the step is a call of remove_ending
RemoveStep == result'.op = "remove_ending" /\ UNCHANGED pic_files

\* the entries that the step removes
Removed == {i \in 1..Len(datas) : \A j \in 1..Len(datas') : datas'[j] # datas[i]}

\* C30: remove_ending resolves a string target by one rule: a string of
\* digits is looked up by id and never by name, any other string by name. A
\* target of digits removes the entry with that id, if there is one, and
\* never an entry whose name is that string; in every case the entry is
\* looked up and the call returns whether it was removed.
C30_StringTargetResolvedByOneRule ==
    [][RemoveStep
          => LET t == result'.name
             IN  /\ result'.out \in {"True", "False"}
                 /\ IntAccepts(t)
                       => /\ \A i \in Removed : datas[i].id = StrToInt(t)
                          /\ result'.out = "True" <=> IndexById(StrToInt(t)) # 0
                          /\ IndexById(StrToInt(t)) # 0 => Removed # {}
                 /\ ~IsDigit(t)
                       => /\ \A i \in Removed : datas[i].name = t
                          /\ result'.out = "True" <=> IndexByName(t) # 0
                          /\ IndexByName(t) # 0 => Removed # {}]_vars

(***************************************************************************)
(* Properties of a failing remove_ending                                   *)
(***************************************************************************)
\* C31: whenever remove_ending returns failure (no entry for the target, or
\* the deletion of the image file raising OSError) the entries, total, max_id
\* and the dirty flag are unchanged; an entry leaves the list only when its
\* image file has been deleted or was not there.
C31_FailedRemoveChangesNothing ==
    [][result'.op = "remove_ending"
          => /\ result'.out = "False" => UNCHANGED <<datas, total, max_id, dirty>>
             /\ \A i \in 1..Len(datas) :
                   (\A j \in 1..Len(datas') : datas'[j] # datas[i])
                      => /\ result'.out = "True"
                         /\ datas[i].pic = <<>> \/ datas[i].pic \notin pic_files']_vars

\* C31 witness: remove_ending found the entry, the deletion of its file
\* raised, and the entry and its file are still there.
C31_Witness ==
    /\ result.op = "remove_ending"
    /\ result.out = "False"
    /\ \E i \in 1..Len(datas) :
          datas[i].id = result.id /\ datas[i].pic # <<>> /\ datas[i].pic \in pic_files

(***************************************************************************)
(* Properties of the ids and the order of the entries                      *)
(***************************************************************************)
\* C32: in every state reached from the empty catalog by add_ending and
\* remove_ending the ids of the entries are pairwise distinct, so that
\* get_ending_by_id finds at most one entry for an id.
C32_LiveIdsPairwiseDistinct ==
    \A i, j \in 1..Len(datas) : i # j => datas[i].id # datas[j].id

\* C32 witness: two entries are stored and the lookup by id finds each of
\* them at its own position.
C32_Witness ==
    /\ Len(datas) = 2
    /\ IndexById(datas[1].id) = 1
    /\ IndexById(datas[2].id) = 2

\* the ids ascend strictly along d
StrictlyAscending(d) == \A i \in 1..(Len(d) - 1) : d[i].id < d[i + 1].id

\* C33: in every state reached from the empty catalog by add_ending and
\* remove_ending the entries are in strictly ascending order of id, so the
\* list command, which sorts the stored sequence in place by id, never
\* changes the stored order.
C33_StoredOrderAscending ==
    [][/\ StrictlyAscending(datas')
       /\ result'.op = "handle_list_doro_endings" => datas' = datas]_vars

\* C33 witness: the list command has sorted a stored sequence of two entries,
\* the later of which has the largest id given so far.
C33_Witness ==
    /\ result.op = "handle_list_doro_endings"
    /\ result.out = "ok"
    /\ Len(datas) = 2
    /\ max_id = MaxId

(***************************************************************************)
(* Properties of daily picks beside running tasks                          *)
(***************************************************************************)
\* the step is a request handled by handle_doro_ending
PickStep == result'.op = "handle_doro_ending" /\ UNCHANGED <<tasks, datas>>

\* C34: total equals the number of entries at every suspension point of
\* add_ending and remove_ending, so a daily pick, which reads the store
\* without the lock, in any interleaving with add_ending and remove_ending on
\* a store that is not empty draws a position within the entries and never
\* indexes outside the sequence.
C34_PickWithinEntries ==
    [][/\ total' = Len(datas')
       /\ (PickStep /\ Len(datas) > 0)
             => /\ result'.out \notin {"ValueError", "IndexError"}
                /\ result'.out = "fresh" => IndexById(result'.id) # 0]_vars

\* C34 witness: a fresh pick was drawn while a task was suspended in the
\* download of add_ending and after an entry had been removed.
C34_Witness ==
    /\ result.op = "handle_doro_ending"
    /\ result.out = "fresh"
    /\ \E c \in Callers : tasks[c].pc = "download"
    /\ Len(datas) = 1
    /\ max_issued = 2

(***************************************************************************)
(* Properties of concurrent daily picks                                    *)
(***************************************************************************)
\* two tasks of handle_doro_ending for the same user on the same day that
\* are both under way
SameUserRequests(c1, c2) ==
    /\ c1 # c2
    /\ tasks[c1].pc = "resolve"
    /\ tasks[c2].pc = "resolve"
    /\ tasks[c1].user_id = tasks[c2].user_id
    /\ tasks[c1].on = tasks[c2].on

\* C35: of two concurrent daily-pick requests by the same user on the same
\* date, in any interleaving, at most one records a fresh pick and both
\* return the same entry id.
C35_ConcurrentRequestsAgree ==
    \A c1, c2 \in Callers :
        SameUserRequests(c1, c2)
            => /\ tasks[c1].id = tasks[c2].id
               /\ ~(tasks[c1].out = "fresh" /\ tasks[c2].out = "fresh")

\* C35 witness: two requests of one user are under way on the same day, one
\* with a fresh pick and the other with the recorded one, among two entries.
C35_Witness ==
    /\ SameUserRequests(1, 2)
    /\ tasks[1].out = "fresh"
    /\ tasks[2].out = "stored"
    /\ tasks[1].id = 2
    /\ Len(datas) = 2

(***************************************************************************)
(* Progress of the tasks                                                   *)
(***************************************************************************)
\* C36: no operation of the store acquires the lock again while it holds it,
\* and the lock is released on every way out of the body, raised errors
\* included; so, every file and network step returning, every operation
\* that waits for the lock acquires it and every operation that has started
\* completes.
C36_EveryOperationCompletes ==
    \A c \in Callers :
        /\ tasks[c].pc = "waiting" ~> Inside(c)
        /\ Inside(c) ~> tasks[c].pc = "idle"

\* C36 witness: a task waits for the lock while the other one is suspended in
\* a download that is going to fail.
C36_Witness ==
    /\ tasks[1].pc = "waiting"
    /\ tasks[2].pc = "download"
    /\ tasks[2].call.image.net = "ClientError"
    /\ lock = 2

(***************************************************************************)
(* Properties of the dirty flag                                            *)
(***************************************************************************)
\* C37: the dirty flag never under-reports: in every reachable state in
\* which the catalog in memory (the entries with their fields and their
\* order, max_id, total) differs from the document last saved or loaded, the
\* dirty flag is true.
C37_DirtyNeverUnderReports ==
    (data_file.kind = "doc" /\ data_file # CatalogDoc(datas, max_id, total)) => dirty

(***************************************************************************)
(* Properties of the persisted ledger                                      *)
(***************************************************************************)
\* C38: the ledger is written through: after every daily-pick request that
\* records a fresh pick or resets the date, the writes succeeding, the
\* persisted mapping equals the mapping in memory; so after a restart on the
\* same date a request of the same user returns the entry id assigned before
\* the restart (the entry being in the catalog).
C38_LedgerWrittenThrough ==
    [][\A u \in Users :
          /\ (RequestBy(u) /\ (result'.out = "fresh" \/ current_date # today))
                => /\ map_file' = JsonFile(user_doro_map')
                   /\ date_file' = JsonFile(DateDict(current_date'))
          /\ (RequestBy(u) /\ result.op = "startup" /\ returned_today[u] \in LiveIds)
                => /\ result'.out = "stored"
                   /\ result'.id = returned_today[u]]_vars

\* C38 witness: the process has restarted on the day on which a user was
\* assigned an entry, and has read that assignment and the entry back.
C38_Witness ==
    /\ result.op = "startup"
    /\ current_date = today
    /\ \E u \in Users :
          /\ MapKey(u) \in DOMAIN user_doro_map
          /\ user_doro_map[MapKey(u)].id = returned_today[u]
          /\ returned_today[u] \in LiveIds

\* C39: the persisted ledger never pairs a date with assignments made on
\* another date: at every point, also when a write fails or the process stops
\* between the two writes of a date reset, if the date file says D then every
\* assignment of the mapping file was recorded on D.
C39_PersistedLedgerOfOneDate ==
    (date_file.kind = "doc" /\ map_file.kind = "doc")
        => \A k \in DOMAIN map_file.dict : map_file.dict[k].on = GetDate(date_file.dict)

(***************************************************************************)
(* The asset downloader                                                    *)
(***************************************************************************)

\* what a call of an operation can do: return a true value, return a false
\* value, raise (a connection error without fallback, a malformed answer)
OperationOutcomes == {"ok", "fail", "raise"}

not_downloader == <<catalog_vars, pic_files, file_vars, ledger_vars, max_issued,
                    returned_today, lock, tasks>>

\* variant: the retry does not ask for use_gitee_fallback
CanFallBackWithoutFlag(d) == d.current_source = "github"

\* _try_with_fallback: a failed first attempt may be retried
CanFallBack(d) == d.use_gitee_fallback /\ d.current_source = "github"

\* download_doro_assets builds a downloader and download() starts:
\* the first operation is get_root_contents
DownloadDoroAssets ==
    /\ downloader.pc = "idle"
    /\ \E use_gitee_fallback \in BOOLEAN :
          downloader' = GitRepoDownloader(use_gitee_fallback)
    /\ result' = Result("download", <<>>, "started", 0)
    /\ UNCHANGED not_downloader

\* download() has ended: its except clause has caught what was raised, or it
\* returned
DownloadEnds(d) == [d EXCEPT !.pc = "idle", !.op = "none", !.switched = FALSE]

\* _try_with_fallback calls operation() the first time
FirstAttempt ==
    /\ downloader.pc = "first"
    /\ \E out \in OperationOutcomes :
          LET d == [downloader EXCEPT !.attempts = 1, !.switched = FALSE]
          IN  /\ downloader' =
                    CASE out = "raise" -> DownloadEnds(d)
                      [] out = "ok" -> [d EXCEPT !.pc = "after", !.success = TRUE]
                      [] OTHER -> IF CanFallBack(d)
                                  THEN [d EXCEPT !.pc = "switch"]
                                  ELSE [d EXCEPT !.pc = "after", !.success = FALSE]
              /\ result' = Result(downloader.op, <<>>, out, 1)
    /\ UNCHANGED not_downloader

\* _switch_to_gitee, called by _try_with_fallback: False when the source is
\* gitee already
SwitchToGitee ==
    /\ downloader.pc = "switch"
    /\ downloader' =
          IF downloader.current_source = "gitee"
          THEN [downloader EXCEPT !.pc = "after", !.success = FALSE]
          ELSE [downloader EXCEPT !.current_source = "gitee", !.pc = "second",
                                  !.switches = @ + 1, !.switched = TRUE]
    /\ result' = Result("_switch_to_gitee", <<>>,
                        IF downloader.current_source = "gitee" THEN "False" ELSE "True", 0)
    /\ UNCHANGED not_downloader

\* _try_with_fallback calls operation() again, right after the switch
SecondAttempt ==
    /\ downloader.pc = "second"
    /\ \E out \in OperationOutcomes :
          LET d == [downloader EXCEPT !.attempts = 2, !.switched = FALSE]
          IN  /\ downloader' =
                    IF out = "raise"
                    THEN DownloadEnds(d)
                    ELSE [d EXCEPT !.pc = "after", !.success = (out = "ok")]
              /\ result' = Result(downloader.op, <<>>, out, 2)
    /\ UNCHANGED not_downloader

\* the next operation download() hands to _try_with_fallback
NextOperation(d, op) == [d EXCEPT !.pc = "first", !.op = op, !.attempts = 0]

\* download() after a _try_with_fallback has returned: after the root listing
\* it stops on failure, else lists the root once more itself and goes on to the
\* picture directory and the JSON file, as far as the listing names them
DownloadContinues ==
    /\ downloader.pc = "after"
    /\ \E again \in OperationOutcomes, has_doro_pic \in BOOLEAN, has_json \in BOOLEAN :
          LET d == downloader
              listed == [d EXCEPT !.has_doro_pic = has_doro_pic, !.has_json = has_json]
          IN  /\ downloader' =
                    CASE d.op = "get_root_contents" ->
                            IF ~d.success \/ again # "ok"
                            THEN DownloadEnds(d)
                            ELSE IF has_doro_pic
                                 THEN NextOperation(listed, "download_pic_dir")
                                 ELSE IF has_json
                                      THEN NextOperation(listed, "_download_json_file")
                                      ELSE DownloadEnds(listed)
                      [] d.op = "download_pic_dir" ->
                            IF d.has_json
                            THEN NextOperation(d, "_download_json_file")
                            ELSE DownloadEnds(d)
                      [] OTHER -> DownloadEnds(d)
              /\ result' = Result("download", <<>>, downloader'.pc, 0)
    /\ UNCHANGED not_downloader

NextDownloader ==
    \/ DownloadDoroAssets
    \/ FirstAttempt
    \/ SwitchToGitee
    \/ SecondAttempt
    \/ DownloadContinues

SpecDownloader == Init /\ [][NextDownloader]_vars

\* C40: an operation handed to _try_with_fallback is called at most twice, the
\* second call is made only right after the step that switched current_source
\* from github to gitee, with use_gitee_fallback true; within one download()
\* run the source switches at most once and never back to github.
C40_AtMostOneRetryAfterOneSwitch ==
    [][/\ downloader'.attempts <= 2
       /\ downloader'.attempts > downloader.attempts =>
             downloader'.attempts = downloader.attempts + 1
       /\ result'.id = 2 =>
             /\ downloader.switched
             /\ downloader.current_source = "gitee"
             /\ downloader.use_gitee_fallback
       /\ downloader'.switched =>
             /\ downloader.current_source = "github"
             /\ downloader'.current_source = "gitee"
       /\ downloader'.switches <= 1
       /\ (downloader.current_source = "gitee" /\ downloader.pc # "idle") =>
             downloader'.current_source = "gitee"]_vars

\* the json operation has been tried a second time, after the run's only switch
C40_Witness ==
    /\ downloader.op = "_download_json_file"
    /\ downloader.attempts = 2
    /\ downloader.switches = 1
    /\ downloader.current_source = "gitee"

====
